---- MODULE Spec2Model ----
(***************************************************************************)
(* OIDC relying-party endpoints of glean: the authorize and callback       *)
(* handlers of glean_api/routers/auth.py running concurrently against the  *)
(* Redis transient store, and OIDCProvider._verify_id_token.               *)
(*                                                                         *)
(* Every `await` of a handler is one step of the model: other requests and *)
(* the passing of time interleave between any two store calls of a         *)
(* request.  A MULTI/EXEC pipeline is one step.                            *)
(***************************************************************************)
EXTENDS Integers, Sequences, FiniteSets, TLC

\* ------------------------------------------------------------------ bounds
\* number of HTTP requests that arrive in one behaviour
NReq == 3
\* number of requests the server handles at the same time
MaxInFlight == 2
\* auth_provider_config.oidc_rate_limit_window_seconds (60 in config.py), scaled
oidc_rate_limit_window_seconds == 2
\* auth_provider_config.oidc_authorize_rate_limit (10 in config.py), scaled
oidc_authorize_rate_limit == 1
\* auth_provider_config.oidc_callback_rate_limit (5 in config.py), scaled
oidc_callback_rate_limit == 1
\* RedisKeys.OIDC_STATE_TTL / OIDC_NONCE_TTL (300 in redis_keys.py), scaled
OIDC_STATE_TTL == 1
OIDC_NONCE_TTL == 1
\* RedisKeys.OIDC_PKCE_VERIFIER_TTL, scaled
OIDC_PKCE_VERIFIER_TTL == 1
\* number of calls made on providers in one behaviour
NCalls == 3
\* jwks_cache_ttl_seconds (86400 in config.py), scaled
jwks_cache_ttl_seconds == 1
\* the last reading of time.monotonic()
MaxClock == 3
\* number of lookups a fake session has answers for
MaxLookups == 3
\* number of callbacks that reconcile one identity at the same time
NCallbacks == 2

\* ------------------------------------------------------------- value sets
\* the server's request slots
Req == 1..MaxInFlight
Clients == {"ip1", "ip2"}
\* state tokens: 1..NReq are handed out by authorize, BogusState never is
BogusState == 0
\* state values made up by a client to look like keys of the store
ForgedCounter == 0 - 1
ForgedNonce == 0 - 2
ForgedStates == {ForgedCounter, ForgedNonce}
States == (0..NReq) \cup ForgedStates
Nonces == 1..NReq
Verifiers == 1..NReq
\* Python None / a key that is not in the store
Nil == 0

Max(a, b) == IF a >= b THEN a ELSE b
Min(a, b) == IF a <= b THEN a ELSE b

\* ------------------------------------------------------------ RedisKeys
\* A key is the text the f-string builds, as the sequence of its parts.
\* The text of a state value: what token_urlsafe returned for the states
\* handed out, and whatever the client wrote in the query for the others.
StateText(s) ==
    CASE s = ForgedCounter -> <<"oidc_rate_limit", ":", "callback", ":", "ip1">>
      [] s = ForgedNonce -> <<"oidc_nonce", ":", "1">>
      [] s = BogusState -> <<"bogus">>
      [] OTHER -> <<ToString(s)>>

\* variant: the state itself is the key
oidc_state_bare(s) == StateText(s)
oidc_state(s) == <<"oidc_state", ":">> \o StateText(s)
\* variant: one nonce key for all attempts
oidc_nonce_shared(s) == <<"oidc_nonce", ":">> \o StateText(1)
oidc_nonce(s) == <<"oidc_nonce", ":">> \o StateText(s)
oidc_pkce_verifier(s) == <<"oidc_pkce_verifier", ":">> \o StateText(s)
oidc_rate_limit(action, client_id) == <<"oidc_rate_limit", ":", action, ":", client_id>>

Actions == {"authorize", "callback"}
AttemptKeys(s) == {oidc_state(s), oidc_nonce(s), oidc_pkce_verifier(s)}
RateKeys == {oidc_rate_limit(a, c) : a \in Actions, c \in Clients}
Keys == (UNION {AttemptKeys(s) : s \in States}) \cup RateKeys

\* ------------------------------------------------- the transient store
\* An entry is [val, ttl].  Time is counted in seconds: ttl = n >= 1 says that
\* the key has more than n-1 and at most n seconds to live; ttl is NoExpiry for
\* a key without expiry and Missing for a key that is not in the store.
NoExpiry == -1
Missing == -2
Absent == [val |-> Nil, ttl |-> Missing]

Exists(st, k) == st[k].ttl # Missing
Get(st, k) == st[k].val
\* variant: the value is written without an expiry
SetWithoutExpiry(st, k, seconds, v) == [st EXCEPT ![k] = [val |-> v, ttl |-> NoExpiry]]
SetEx(st, k, seconds, v) == [st EXCEPT ![k] = [val |-> v, ttl |-> seconds]]
Delete(st, k) == [st EXCEPT ![k] = Absent]
\* INCR creates a missing key as 1 without expiry and keeps the expiry of an existing one
Incr(st, k) ==
    IF Exists(st, k) THEN [st EXCEPT ![k].val = @ + 1]
    ELSE [st EXCEPT ![k] = [val |-> 1, ttl |-> NoExpiry]]
\* EXPIRE on a missing key does nothing
Expire(st, k, seconds) ==
    IF Exists(st, k) THEN [st EXCEPT ![k].ttl = seconds] ELSE st
\* TTL replies -2 for a missing key, -1 for a key without expiry, and otherwise
\* the remaining milliseconds rounded to the nearest second: for a key with
\* between n-1 and n seconds to live that is n-1 or n
Ttl(st, k) ==
    IF st[k].ttl < 0 THEN {st[k].ttl} ELSE {st[k].ttl - 1, st[k].ttl}
\* variant: a key that runs out stays in the store
ElapseKeepsExpired(st) ==
    [k \in Keys |-> IF st[k].ttl > 1 THEN [st[k] EXCEPT !.ttl = @ - 1] ELSE st[k]]

\* one second passes: every expiry comes one second closer, a key that runs out is removed
Elapse(st) ==
    [k \in Keys |->
        IF st[k].ttl = 1 THEN Absent
        ELSE IF st[k].ttl > 1 THEN [st[k] EXCEPT !.ttl = @ - 1]
        ELSE st[k]]

\* ------------------------------------------------------------ the state
VARIABLES
    store,               \* the Redis transient store: key -> [val, ttl]
    req,                 \* the requests being handled: slot -> handler frame
    resp,                \* the response sent last
    arrived,             \* number of requests that have arrived
    oidc_enabled,        \* auth_provider_config.oidc_enabled
    provider_configured, \* "oidc" in auth_service.provider_configs
    issued,              \* number of state tokens generated so far
    published,           \* the state tokens returned to clients by authorize
    admitted,            \* history, per rate-limit key: requests admitted in the open window
    age,                 \* history, per rate-limit key: seconds since the open window's
                         \*   first request set the expiry
    rejected,            \* history: the rate-limit keys that were answered 429
    consumed,            \* history: the states a consume transaction has run on
    passed,              \* history, per state: callbacks that passed the consume step
    sent,                \* history, per state: what authorize stored and the URL it returned
    id_token,            \* _verify_id_token: the ID token under verification
    jwks,                \* _verify_id_token: the key set returned by _get_jwks
    expected_nonce,      \* _verify_id_token: the nonce argument
    verdict,             \* _verify_id_token: its result, or Pending before it has run
    proxy_config,        \* auth_provider_config: oidc_trusted_proxy_ips, oidc_client_ip_headers
    peer,                \* _get_client_identifier: request.client.host of two requests
    headers,             \* _get_client_identifier: request.headers of the two requests
    identifier,          \* _get_client_identifier: its result for the two requests
    provider_config,     \* auth_service.provider_configs["oidc"]: issuer and discovery_url
    provider,            \* the OIDCProvider instance in use
    monotonic,           \* time.monotonic(), in seconds
    http,                \* history: the HTTP requests sent to the identity provider
    call,                \* the call that runs on the provider, or the last one
    wall,                \* time.time_ns() and, as history, the _t of the URLs returned
    users,               \* the committed rows of the users table
    mappings,            \* the committed rows of the user_auth_providers table
    session,             \* the database sessions of the callbacks that reconcile an identity
    fake_session,        \* _find_or_create_oauth_user: the answers of a scripted session
    returned             \* _find_or_create_oauth_user: its result on the scripted session

config == <<oidc_enabled, provider_configured>>
history == <<admitted, age, rejected, consumed, passed, sent>>
verify == <<id_token, jwks, expected_nonce, verdict>>
ident == <<proxy_config, peer, headers, identifier>>
oidc == <<provider_config, provider, monotonic, http, call, wall>>
db == <<users, mappings, session, fake_session, returned>>
vars == <<store, req, resp, arrived, config, verify, ident, oidc, db, issued, published, history>>

\* A URL is what urlparse makes of it: scheme, netloc and path, each as
\* written.  NoUrl is the empty or missing value.
Url(scheme, netloc, path) == [scheme |-> scheme, netloc |-> netloc, path |-> path]
NoUrl == Url("", "", "")

\* An authorization URL is its endpoint and the query parameters that
\* get_authorization_url puts on it (lines 302-314); NoAuthUrl is no URL.
NoChallenge == <<>>
NoAuthUrl ==
    [endpoint |-> NoUrl, client_id |-> "", redirect_uri |-> "", response_type |-> "",
     scope |-> <<>>, state |-> Nil, nonce |-> Nil, code_challenge |-> NoChallenge,
     code_challenge_method |-> "", t |-> 0]

\* what authorize did for a state: nothing yet
NoAttempt == [nonce |-> Nil, code_verifier |-> Nil, url |-> NoAuthUrl]

\* a handler frame: the request's inputs, its position and its local variables
Idle ==
    [kind |-> "none", client |-> "none", pc |-> "idle", state |-> Nil,
     current_count |-> 0, nonce |-> Nil, code_verifier |-> Nil,
     code_challenge |-> NoChallenge,
     again |-> FALSE,   \* history: arrived in a fresh window after its client got a 429
     retried |-> FALSE, \* history: arrived after a callback with its state was answered 429
     elapsed |-> 0]     \* history: seconds since the handler wrote the state marker

\* a response: the request it answers, status, detail and Retry-After header
\* (ttl is the reply of the TTL command the header was computed from)
NoResponse ==
    [kind |-> "none", state |-> Nil, status |-> 0, detail |-> "", retry_after |-> 0, ttl |-> 0]

Response(frame, status, detail) ==
    [kind |-> frame.kind, state |-> frame.state,
     status |-> status, detail |-> detail, retry_after |-> 0, ttl |-> 0]

\* no verification has run
Pending == [error |-> "pending", algorithms |-> <<>>]
NoToken ==
    [kid |-> "", alg |-> "", signed_with |-> "", iss |-> "", aud |-> "",
     exp |-> Nil, iat |-> Nil, nbf |-> Nil, nonce |-> Nil]

\* no client identifier is being computed
NoClient == "none"
IdentIdle ==
    /\ proxy_config = [oidc_trusted_proxy_ips |-> <<>>, oidc_client_ip_headers |-> <<>>]
    /\ peer = NoClient
    /\ headers = <<>>
    /\ identifier = <<>>

\* the URL whose text is Issuer
IssuerUrl == Url("https", "issuer.example.com", "")
WellKnown == "/.well-known/openid-configuration"
GoodConfig == [issuer |-> IssuerUrl, discovery_url |-> Url("https", "issuer.example.com", WellKnown)]

\* OIDCProvider.__init__, lines 57-69: _oidc_config and _jwks are <<>> for
\* None and hold one element once loaded
NeverCached == -1
NewProvider(cfg) ==
    [issuer |-> cfg.issuer, discovery_url |-> cfg.discovery_url,
     scopes |-> <<"openid", "email", "profile">>,
     oidc_config |-> <<>>, jwks |-> <<>>, jwks_cached_at |-> NeverCached]
\* no provider instance exists
NoProvider == NewProvider([issuer |-> NoUrl, discovery_url |-> NoUrl])

\* A call in progress: the method or handler that runs, its position, the ID
\* token it got from the token endpoint and, once it is done, where it failed
\* and with which exception, or the URL it returned.
\* A token response: kind is "unreachable" when the client raises
\* httpx.RequestError, "not_json" for a body that is no JSON, "not_object" for
\* JSON that is no object and "ok" for a JSON object; status is the HTTP
\* status, fields are the keys of the object that matter, token_type and
\* id_token their values.
TokenResponse(kind, status_code, fields, token_type, token) ==
    [kind |-> kind, status_code |-> status_code, fields |-> fields,
     token_type |-> IF "token_type" \in fields THEN token_type ELSE "",
     id_token |-> IF "id_token" \in fields THEN token ELSE NoToken]
NoTokenResponse == TokenResponse("none", 0, {}, "", NoToken)

NoCall ==
    [kind |-> "none", pc |-> "idle", id_token |-> NoToken, token_response |-> NoTokenResponse,
     args |-> <<Nil, NoChallenge>>,   \* history: nonce and code_challenge it was given
     failed_at |-> "", exception |-> "", error |-> "", url |-> NoAuthUrl]

\* the wall clock at its start, no URL returned yet
NoStamps == [time_ns |-> 0, stamps |-> <<>>]
\* no HTTP request has been sent
NoHttp == [discovery |-> 0, token |-> 0, jwks |-> 0, urls |-> {}, loaded |-> FALSE]
\* no provider is in use
ProviderIdle ==
    /\ provider_config = GoodConfig
    /\ provider = NoProvider
    /\ monotonic = 0
    /\ http = NoHttp
    /\ call = NoCall
    /\ wall = NoStamps

\* no user: Python None
NoUser == "none"
\* a database session that is not in use
NoSession ==
    [pc |-> "idle", email |-> Nil, user |-> Nil, pending |-> {}, updated |-> {}, mapping |-> {},
     found |-> FALSE, rolled_back |-> FALSE, result |-> Nil, exception |-> ""]
\* _find_or_create_oauth_user has not been called
NotCalled == [user |-> NoUser, exception |-> "pending", lookups |-> 0, sleep_calls |-> <<>>]
\* no reconciliation runs
DbIdle ==
    /\ users = {}
    /\ mappings = {}
    /\ session = [w \in 1..NCallbacks |-> NoSession]
    /\ fake_session = <<>>
    /\ returned = NotCalled

\* requests that have arrived and are not answered yet
InFlight == {r \in Req : req[r].pc # "idle"}

Init ==
    /\ store = [k \in Keys |-> Absent]
    /\ req = [r \in Req |-> Idle]
    /\ resp = NoResponse
    /\ arrived = 0
    /\ oidc_enabled \in BOOLEAN
    /\ provider_configured \in BOOLEAN
    /\ issued = 0
    /\ published = {}
    /\ admitted = [k \in RateKeys |-> 0]
    /\ age = [k \in RateKeys |-> 0]
    /\ rejected = {}
    /\ consumed = {}
    /\ passed = [s \in States |-> 0]
    /\ sent = [s \in States |-> NoAttempt]
    /\ id_token = NoToken
    /\ jwks = <<>>
    /\ expected_nonce = Nil
    /\ verdict = Pending
    /\ IdentIdle
    /\ ProviderIdle
    /\ DbIdle

\* ------------------------------------------------ _enforce_oidc_rate_limit
Limit(action) ==
    IF action = "authorize" THEN oidc_authorize_rate_limit ELSE oidc_callback_rate_limit

\* variant: the request that reaches the limit is rejected too
RateLimitedAtLimit(current_count, limit) == current_count >= limit

\* the comparison of line 155
RateLimited(current_count, limit) == current_count > limit

\* variant: the TTL reply is used as it comes
RetryAfterRaw(retry_after) == retry_after

\* the Retry-After value of line 160
RetryAfter(retry_after) == Max(retry_after, 1)

\* where the handler continues once the rate limiter has let it through
Admitted(kind) == IF kind = "authorize" THEN "prepare" ELSE "consume"

\* variant: the expiry is set after every increment
AfterIncrSliding(kind, current_count) == "rl_expire"

\* variant: the count is not compared with the limit
AfterIncrUnlimited(kind, current_count) ==
    IF current_count = 1 THEN "rl_expire" ELSE Admitted(kind)

\* position after `current_count = await redis.incr(key)`
AfterIncr(kind, current_count) ==
    IF current_count = 1 THEN "rl_expire"
    ELSE IF RateLimited(current_count, Limit(kind)) THEN "rl_ttl"
    ELSE Admitted(kind)

\* position after `await redis.expire(key, window)`
AfterExpire(kind, current_count) ==
    IF RateLimited(current_count, Limit(kind)) THEN "rl_ttl" ELSE Admitted(kind)

\* variant: the handlers do not look at the switch
OidcDisabledIgnored(enabled) == FALSE

\* the test of lines 327 and 437
OidcDisabled(enabled) == ~enabled

\* A request arrives in a free slot.  The handler checks oidc_enabled and, when
\* enabled, runs up to its first store call, the INCR of its rate-limit counter.
Arrive(r, kind, client, s) ==
    /\ req[r].pc = "idle"
    /\ \A q \in Req : q < r => req[q].pc # "idle"
    /\ arrived < NReq
    /\ arrived' = arrived + 1
    /\ IF OidcDisabled(oidc_enabled)
       THEN /\ resp' = Response([Idle EXCEPT !.kind = kind, !.client = client, !.state = s],
                                404, "OIDC authentication is not enabled")
            /\ UNCHANGED <<store, req, admitted, age>>
       ELSE LET key == oidc_rate_limit(kind, client)
                st2 == Incr(store, key)
                cnt == Get(st2, key)
                fresh == ~Exists(store, key)
                pc2 == AfterIncr(kind, cnt)
                adm == IF fresh THEN 0 ELSE admitted[key]
            IN /\ store' = st2
               /\ admitted' = [admitted EXCEPT ![key] =
                                  IF pc2 = Admitted(kind) THEN adm + 1 ELSE adm]
               /\ age' = [age EXCEPT ![key] = IF fresh THEN 0 ELSE @]
               /\ req' = [req EXCEPT ![r] = [Idle EXCEPT !.kind = kind, !.client = client,
                           !.state = s, !.current_count = cnt, !.pc = pc2,
                           !.again = fresh /\ key \in rejected,
                           !.retried = /\ kind = "callback" /\ resp.kind = "callback"
                                       /\ resp.status = 429 /\ resp.state = s]]
               /\ UNCHANGED resp
    /\ UNCHANGED <<config, db, verify, ident, oidc, issued, published, rejected, consumed, passed, sent>>

ArriveAuthorize(r) == \E c \in Clients : Arrive(r, "authorize", c, Nil)

\* a callback presents a state its client was given, or one that was never issued
ArriveCallback(r) == \E c \in Clients, s \in published \cup {BogusState} : Arrive(r, "callback", c, s)
\* a callback whose state parameter was written to look like a key of the store
ArriveForged(r) == \E c \in Clients, s \in ForgedStates : Arrive(r, "callback", c, s)

\* `await redis.expire(key, window_seconds)` of the request that counted 1
RateLimitExpire(r) ==
    /\ req[r].pc = "rl_expire"
    /\ LET key == oidc_rate_limit(req[r].kind, req[r].client)
           pc2 == AfterExpire(req[r].kind, req[r].current_count)
       IN /\ store' = Expire(store, key, oidc_rate_limit_window_seconds)
          /\ req' = [req EXCEPT ![r].pc = pc2]
          /\ admitted' = [admitted EXCEPT ![key] =
                             IF pc2 = Admitted(req[r].kind) THEN @ + 1 ELSE @]
          /\ age' = [age EXCEPT ![key] = IF req[r].current_count = 1 THEN 0 ELSE @]
    /\ UNCHANGED <<resp, arrived, config, db, verify, ident, oidc, issued, published, rejected, consumed, passed, sent>>

\* `retry_after = await redis.ttl(key)` and the 429 answer
RateLimitReject(r) ==
    /\ req[r].pc = "rl_ttl"
    /\ \E t \in Ttl(store, oidc_rate_limit(req[r].kind, req[r].client)) :
          resp' = [Response(req[r], 429, "Too many requests. Please try again later.")
                      EXCEPT !.ttl = t, !.retry_after = RetryAfter(t)]
    /\ rejected' = rejected \cup {oidc_rate_limit(req[r].kind, req[r].client)}
    /\ req' = [req EXCEPT ![r] = Idle]
    /\ UNCHANGED <<store, arrived, config, db, verify, ident, oidc, issued, published, admitted, age, consumed, passed, sent>>

\* ------------------------------------------- PKCE and the authorization URL
\* hashlib.sha256(data).digest(): SHA-256 is taken to be free of collisions
Sha256(data) == <<"sha256", data>>
\* base64.urlsafe_b64encode(...).decode(): a text is the sequence of its parts;
\* the 32 bytes of a digest give 43 characters and one "=" of padding
Padding == <<"=">>
UrlsafeB64encode(digest) == <<digest, Padding>>
\* str.rstrip("=")
RECURSIVE RStrip(_)
RStrip(text) ==
    IF text # <<>> /\ text[Len(text)] = Padding THEN RStrip(SubSeq(text, 1, Len(text) - 1)) ELSE text

\* variant: the padding of the encoding is kept
GeneratePkcePairPadded(code_verifier) ==
    <<code_verifier, UrlsafeB64encode(Sha256(code_verifier))>>

\* generate_pkce_pair, lines 143-150, for the verifier that token_urlsafe(32) yields
GeneratePkcePair(code_verifier) ==
    <<code_verifier, RStrip(UrlsafeB64encode(Sha256(code_verifier)))>>

Endpoint(path) == Url("https", "issuer.example.com", path)
GoodDoc ==
    [authorization_endpoint |-> Endpoint("/authorize"), token_endpoint |-> Endpoint("/token"),
     jwks_uri |-> Endpoint("/jwks")]

\* the instance of a request once its prepare() has succeeded
Prepared == [NewProvider(GoodConfig) EXCEPT !.oidc_config = <<GoodDoc>>]

\* config["client_id"]
ClientId == "client-id"

\* " ".join(parts): a text is the sequence of its parts
RECURSIVE Join(_, _)
Join(parts, sep) ==
    IF Len(parts) <= 1 THEN parts
    ELSE <<Head(parts), sep>> \o Join(Tail(parts), sep)

RedirectUri == "https://app.example.com/auth/callback"

\* variant: an empty nonce or code_challenge is passed on
GetAuthorizationUrlUnchecked(self, state, redirect_uri, nonce, code_challenge, time_ns) ==
    IF self.oidc_config = <<>>
    THEN [error |-> "OIDC config not loaded - call _get_oidc_config() first", url |-> NoAuthUrl]
    ELSE [error |-> "",
          url |-> [endpoint |-> self.oidc_config[1].authorization_endpoint,
                   client_id |-> ClientId, redirect_uri |-> redirect_uri,
                   response_type |-> "code", scope |-> Join(self.scopes, " "),
                   state |-> state, nonce |-> nonce, code_challenge |-> code_challenge,
                   code_challenge_method |-> "S256", t |-> time_ns]]

\* get_authorization_url, lines 289-316, when time_ns() returns time_ns: the
\* ValueError it raises ("" for none) and the URL it returns, as its endpoint
\* and its query parameters.  It reads the cached discovery document and sends
\* nothing.
GetAuthorizationUrl(self, state, redirect_uri, nonce, code_challenge, time_ns) ==
    IF self.oidc_config = <<>>
    THEN [error |-> "OIDC config not loaded - call _get_oidc_config() first", url |-> NoAuthUrl]
    ELSE IF nonce = Nil
    THEN [error |-> "Nonce is required for OIDC authorization", url |-> NoAuthUrl]
    ELSE IF code_challenge = NoChallenge
    THEN [error |-> "PKCE code_challenge is required for OIDC authorization", url |-> NoAuthUrl]
    ELSE [error |-> "",
          url |-> [endpoint |-> self.oidc_config[1].authorization_endpoint,
                   client_id |-> ClientId, redirect_uri |-> redirect_uri,
                   response_type |-> "code", scope |-> Join(self.scopes, " "),
                   state |-> state, nonce |-> nonce, code_challenge |-> code_challenge,
                   code_challenge_method |-> "S256", t |-> time_ns]]

\* `pipe.execute()` of a pipeline(transaction=True): the queued commands run
\* in order as one MULTI/EXEC transaction; the result is the store afterwards
\* and the list of replies
RECURSIVE Execute(_, _, _)
Execute(st, cmds, replies) ==
    IF cmds = <<>> THEN [store |-> st, replies |-> replies]
    ELSE LET cmd == Head(cmds)
             k == cmd[2]
             found == IF Exists(st, k) THEN 1 ELSE 0
         IN IF cmd[1] = "exists" THEN Execute(st, Tail(cmds), Append(replies, found))
            ELSE IF cmd[1] = "get" THEN Execute(st, Tail(cmds), Append(replies, Get(st, k)))
            ELSE Execute(Delete(st, k), Tail(cmds), Append(replies, found))

\* ---------------------------------------------------------- oidc_authorize
\* variant: a failing authorize removes the state marker issued last
PrepareCommandsDropMarker(frame) ==
    IF issued = 0 THEN <<>> ELSE << <<"delete", oidc_state(issued)>> >>

\* the store commands of lines 336-350, up to the failure of the provider
\* lookup, of AuthProviderFactory.create or of prepare(): none
PrepareCommands(frame) == <<>>

\* The provider lookup, AuthProviderFactory.create and `await prepare()`; on
\* success the handler generates state, nonce and the PKCE verifier.  Each is
\* a token of 256 random bits (token_urlsafe(32)), modelled as a fresh value.
AuthorizePrepare(r) ==
    /\ req[r].pc = "prepare"
    /\ \/ /\ ~provider_configured
          /\ resp' = Response(req[r], 500, "OIDC provider not configured")
          /\ req' = [req EXCEPT ![r] = Idle]
          /\ store' = Execute(store, PrepareCommands(req[r]), <<>>).store
          /\ UNCHANGED issued
       \/ /\ provider_configured
          /\ resp' = Response(req[r], 500, "Failed to generate authorization URL")
          /\ req' = [req EXCEPT ![r] = Idle]
          /\ store' = Execute(store, PrepareCommands(req[r]), <<>>).store
          /\ UNCHANGED issued
       \/ /\ provider_configured
          /\ req' = [req EXCEPT ![r].state = issued + 1, ![r].nonce = issued + 1,
                                ![r].code_verifier = GeneratePkcePair(issued + 1)[1],
                                ![r].code_challenge = GeneratePkcePair(issued + 1)[2],
                                ![r].pc = "setex_state"]
          /\ issued' = issued + 1
          /\ UNCHANGED <<store, resp>>
    /\ UNCHANGED <<arrived, config, db, verify, ident, oidc, published, history>>

\* `await redis.setex(RedisKeys.oidc_state(state), OIDC_STATE_TTL, "1")`
AuthorizeStoreState(r) ==
    /\ req[r].pc = "setex_state"
    /\ store' = SetEx(store, oidc_state(req[r].state), OIDC_STATE_TTL, 1)
    /\ req' = [req EXCEPT ![r].pc = "setex_nonce"]
    /\ UNCHANGED <<resp, arrived, config, db, verify, ident, oidc, issued, published, history>>

\* `await redis.setex(RedisKeys.oidc_nonce(state), OIDC_NONCE_TTL, nonce)`
AuthorizeStoreNonce(r) ==
    /\ req[r].pc = "setex_nonce"
    /\ store' = SetEx(store, oidc_nonce(req[r].state), OIDC_NONCE_TTL, req[r].nonce)
    /\ req' = [req EXCEPT ![r].pc = "setex_pkce"]
    /\ UNCHANGED <<resp, arrived, config, db, verify, ident, oidc, issued, published, history>>

\* `await redis.setex(RedisKeys.oidc_pkce_verifier(state), ..., code_verifier)`,
\* then get_authorization_url and the 200 answer carrying the state
AuthorizeStorePkce(r) ==
    /\ req[r].pc = "setex_pkce"
    /\ store' = SetEx(store, oidc_pkce_verifier(req[r].state), OIDC_PKCE_VERIFIER_TTL,
                      req[r].code_verifier)
    /\ LET out == GetAuthorizationUrl(Prepared, req[r].state, RedirectUri, req[r].nonce,
                                      req[r].code_challenge, wall.time_ns)
       IN IF out.error # ""
          THEN /\ resp' = Response(req[r], 500, "Failed to generate authorization URL")
               /\ UNCHANGED <<published, sent>>
          ELSE /\ resp' = Response(req[r], 200, "")
               /\ published' = published \cup {req[r].state}
               /\ sent' = [sent EXCEPT ![req[r].state] =
                              [nonce |-> req[r].nonce, code_verifier |-> req[r].code_verifier,
                               url |-> out.url]]
    /\ req' = [req EXCEPT ![r] = Idle]
    /\ UNCHANGED <<arrived, config, db, verify, ident, oidc, issued, admitted, age, rejected,
                   consumed, passed>>

\* ------------------------------------------------ _consume_oidc_auth_context
\* variant: the pipeline only reads
ConsumeCommandsReadOnly(state) ==
    << <<"exists", oidc_state(state)>>,
       <<"get", oidc_nonce(state)>>,
       <<"get", oidc_pkce_verifier(state)>> >>

\* variant: the nonce key is not deleted
ConsumeCommandsKeepNonce(state) ==
    << <<"exists", oidc_state(state)>>,
       <<"get", oidc_nonce(state)>>,
       <<"get", oidc_pkce_verifier(state)>>,
       <<"delete", oidc_state(state)>>,
       <<"delete", oidc_pkce_verifier(state)>> >>

\* variant: the PKCE verifier key is not deleted
ConsumeCommandsKeepVerifier(state) ==
    << <<"exists", oidc_state(state)>>,
       <<"get", oidc_nonce(state)>>,
       <<"get", oidc_pkce_verifier(state)>>,
       <<"delete", oidc_state(state)>>,
       <<"delete", oidc_nonce(state)>> >>

\* the commands queued on the pipeline, lines 112-117
ConsumeCommands(state) ==
    << <<"exists", oidc_state(state)>>,
       <<"get", oidc_nonce(state)>>,
       <<"get", oidc_pkce_verifier(state)>>,
       <<"delete", oidc_state(state)>>,
       <<"delete", oidc_nonce(state)>>,
       <<"delete", oidc_pkce_verifier(state)>> >>

\* variant: the nonce is looked at before the state marker
ConsumeOutcomeNonceFirst(replies) ==
    IF replies[2] = Nil THEN "Invalid or expired nonce"
    ELSE IF replies[1] = 0 THEN "Invalid or expired state"
    ELSE IF replies[3] = Nil THEN "Invalid or expired PKCE verifier"
    ELSE "ok"

\* the checks of lines 120-139 on the replies <<state_valid, nonce, code_verifier, ...>>
ConsumeOutcome(replies) ==
    IF replies[1] = 0 THEN "Invalid or expired state"
    ELSE IF replies[2] = Nil THEN "Invalid or expired nonce"
    ELSE IF replies[3] = Nil THEN "Invalid or expired PKCE verifier"
    ELSE "ok"

\* The consume step of oidc_callback and the provider lookup that follows it
CallbackConsume(r) ==
    /\ req[r].pc = "consume"
    /\ LET res == Execute(store, ConsumeCommands(req[r].state), <<>>)
           out == ConsumeOutcome(res.replies)
       IN /\ store' = res.store
          /\ consumed' = consumed \cup {req[r].state}
          /\ passed' = [passed EXCEPT ![req[r].state] = IF out = "ok" THEN @ + 1 ELSE @]
          /\ IF out # "ok"
             THEN /\ resp' = Response(req[r], 400, out)
                  /\ req' = [req EXCEPT ![r] = Idle]
             ELSE IF ~provider_configured
             THEN /\ resp' = Response(req[r], 500, "OIDC provider not configured")
                  /\ req' = [req EXCEPT ![r] = Idle]
             ELSE /\ req' = [req EXCEPT ![r].nonce = res.replies[2],
                                        ![r].code_verifier = res.replies[3],
                                        ![r].pc = "login"]
                  /\ UNCHANGED resp
    /\ UNCHANGED <<arrived, config, db, verify, ident, oidc, issued, published, admitted, age, rejected,
                   sent>>

\* variant: the login clears the rate-limit counter of its client
LoginCommandsResetCounter(frame) ==
    << <<"delete", oidc_rate_limit(frame.kind, frame.client)>> >>

\* the store commands of lines 459-481, of login_with_provider and of
\* OIDCProvider.authenticate: none of them is given the Redis client
LoginCommands(frame) == <<>>

\* `await auth_service.login_with_provider("oidc", credentials)`: it returns,
\* raises ValueError (answered 401) or raises another exception (answered 500)
CallbackLogin(r) ==
    /\ req[r].pc = "login"
    /\ store' = Execute(store, LoginCommands(req[r]), <<>>).store
    /\ \/ resp' = Response(req[r], 200, "")
       \/ resp' = Response(req[r], 401, "Authentication failed. Please try again.")
       \/ resp' = Response(req[r], 500, "Internal Server Error")
    /\ req' = [req EXCEPT ![r] = Idle]
    /\ UNCHANGED <<arrived, config, db, verify, ident, oidc, issued, published, history>>

\* ------------------------------------------------------------------ time
\* one second passes
Tick ==
    /\ store' = Elapse(store)
    /\ age' = [k \in RateKeys |->
                 IF store[k].ttl > 1 THEN age[k] + 1 ELSE IF store[k].ttl = 1 THEN 0 ELSE age[k]]
    /\ req' = [r \in Req |->
                 IF req[r].pc \in {"setex_nonce", "setex_pkce"}
                 THEN [req[r] EXCEPT !.elapsed = Min(@ + 1, Max(OIDC_STATE_TTL, OIDC_NONCE_TTL))]
                 ELSE req[r]]
    /\ UNCHANGED <<resp, arrived, config, db, verify, ident, oidc, issued, published, admitted, rejected,
                   consumed, passed, sent>>

Next ==
    \/ \E r \in Req : ArriveAuthorize(r)
    \/ \E r \in Req : ArriveCallback(r)
    \/ \E r \in Req : RateLimitExpire(r)
    \/ \E r \in Req : RateLimitReject(r)
    \/ \E r \in Req : AuthorizePrepare(r)
    \/ \E r \in Req : AuthorizeStoreState(r)
    \/ \E r \in Req : AuthorizeStoreNonce(r)
    \/ \E r \in Req : AuthorizeStorePkce(r)
    \/ \E r \in Req : CallbackConsume(r)
    \/ \E r \in Req : CallbackLogin(r)
    \/ Tick

Spec == Init /\ [][Next]_vars

\* The same handlers on a clock that does not stop: the store goes on counting
\* the seconds whatever the requests do.  No handler is required to make
\* progress.
SpecTime == Init /\ [][Next]_vars /\ WF_vars(Tick)

\* The same handlers with clients that also send forged state values, within
\* one second: no key runs out.
NextForged ==
    \/ \E r \in Req : ArriveAuthorize(r)
    \/ \E r \in Req : ArriveCallback(r)
    \/ \E r \in Req : ArriveForged(r)
    \/ \E r \in Req : RateLimitExpire(r)
    \/ \E r \in Req : RateLimitReject(r)
    \/ \E r \in Req : AuthorizePrepare(r)
    \/ \E r \in Req : AuthorizeStoreState(r)
    \/ \E r \in Req : AuthorizeStoreNonce(r)
    \/ \E r \in Req : AuthorizeStorePkce(r)
    \/ \E r \in Req : CallbackConsume(r)
    \/ \E r \in Req : CallbackLogin(r)

SpecForged == Init /\ [][NextForged]_vars

\* --------------------------------------------- OIDCProvider._verify_id_token
\* An ID token is described by what the verifier reads from it: the header
\* fields kid and alg ("" when the header has none), the claims, and
\* signed_with, the key material under which its signature verifies with the
\* algorithm of its header ("forged" when under none).  An HMAC token signed
\* with a published key as the secret has signed_with = that key's material.
HeaderAlgs == {"", "none", "HS256", "PS256", "RS256", "ES256"}
KeyAlgs == {"", "HS256", "RS256", "ES256"}
Issuer == "https://issuer.example.com"
\* datetime.now(UTC) at the time of verification, in seconds
Clock == 100

Tokens ==
    [kid : {"", "k1", "k2"}, alg : HeaderAlgs, signed_with : {"m1", "forged"},
     iss : {Issuer, "https://evil.example.com"}, aud : {ClientId, "other-client"},
     exp : {Nil, 50, 200}, iat : {Nil, 100, 200}, nbf : {Nil, 130, 200},
     nonce : {Nil, 1, 2}]

\* a JWKS is the list under "keys": each key has a kid, an alg ("" when the
\* key declares none) and its material
Key(kid, alg, material) == [kid |-> kid, alg |-> alg, material |-> material]
KeySets ==
    {<<>>} \cup {<<Key("k1", a, "m1")>> : a \in KeyAlgs}
           \cup {<<Key("k2", "RS256", "m2"), Key("k1", a, "m1")>> : a \in KeyAlgs}

\* variant: HMAC is allowed as well
ALLOWED_SIGNING_ALGORITHMS_WITH_HMAC == {"RS256", "RS384", "RS512", "ES256", "ES384", "ES512", "HS256"}

ALLOWED_SIGNING_ALGORITHMS == {"RS256", "RS384", "RS512", "ES256", "ES384", "ES512"}

\* variant: a token without nonce claim is let through
NonceMismatchUnlessMissing(token_nonce, nonce) == token_nonce # Nil /\ token_nonce # nonce

\* the comparison of line 436
NonceMismatch(token_nonce, nonce) == token_nonce # nonce

\* variant: a header without algorithm counts as a mismatch
AlgorithmMismatchStrict(header_alg, key_alg) == key_alg # header_alg

\* variant: the algorithms are never compared
AlgorithmMismatchIgnored(header_alg, key_alg) == FALSE

\* the comparison of line 405
AlgorithmMismatch(header_alg, key_alg) == header_alg # "" /\ key_alg # header_alg

\* the loop of lines 391-395: the first key of the set with the token's kid,
\* as a sequence of at most one key
RECURSIVE FindKey(_, _)
FindKey(keys, kid) ==
    IF keys = <<>> THEN <<>>
    ELSE IF Head(keys).kid = kid THEN <<Head(keys)>>
    ELSE FindKey(Tail(keys), kid)

\* jose's jwk.construct(signing_key), line 409: it takes the algorithm from
\* the key's own "alg" and raises JWKError when the key has none
JwkConstruct(signing_key) == IF signing_key.alg = "" THEN "JWKError" ELSE ""

\* jose's jwt.decode with the options of lines 420-429: the exception it raises,
\* "" when it returns the claims.  The signature is checked first (the header
\* must name an algorithm of `algorithms`), then the required claims, then
\* iat, nbf (no leeway), exp, aud and iss.
JwtDecode(token, key, algorithms, audience, issuer, clock) ==
    IF token.alg = "" THEN "JWTError"
    ELSE IF \A i \in 1..Len(algorithms) : algorithms[i] # token.alg THEN "JWTError"
    ELSE IF token.signed_with # key.material THEN "JWTError"
    ELSE IF token.exp = Nil \/ token.iat = Nil THEN "JWTError"
    ELSE IF token.nbf # Nil /\ token.nbf > clock THEN "JWTClaimsError"
    ELSE IF token.exp < clock THEN "ExpiredSignatureError"
    ELSE IF token.aud # audience THEN "JWTClaimsError"
    ELSE IF token.iss # issuer THEN "JWTClaimsError"
    ELSE ""

\* the except clauses of lines 477-486
DecodeError(exception) ==
    IF exception = "ExpiredSignatureError" THEN "ID token has expired"
    ELSE IF exception = "JWTClaimsError" THEN "ID token claims validation failed"
    ELSE "ID token verification failed"

\* the result of _verify_id_token: error is the message of the ValueError it
\* raises ("" when it returns the claims) and algorithms is the `algorithms`
\* argument of the jwt.decode call it made (<<>> when it made none)
Verdict(error, algorithms) == [error |-> error, algorithms |-> algorithms]

\* lines 432-475, after jwt.decode has returned the claims
CheckClaims(token, nonce, clock, algorithms) ==
    IF NonceMismatch(token.nonce, nonce)
    THEN Verdict("Nonce mismatch - possible replay attack", algorithms)
    ELSE IF token.iat # Nil /\ token.iat > clock + 60
    THEN Verdict("Token issued in the future", algorithms)
    ELSE IF token.nbf # Nil /\ clock < token.nbf - 60
    THEN Verdict("Token not yet valid (nbf)", algorithms)
    ELSE Verdict("", algorithms)

\* lines 400-430, once the signing key is found
VerifyWithKey(token, signing_key, nonce, clock) ==
    LET header_alg == token.alg
        key_alg == IF signing_key.alg # "" THEN signing_key.alg ELSE header_alg
    IN IF key_alg = ""
       THEN Verdict("Unable to determine signing algorithm for ID token", <<>>)
       ELSE IF key_alg \notin ALLOWED_SIGNING_ALGORITHMS
       THEN Verdict("JWKS key uses an unsupported signing algorithm", <<>>)
       ELSE IF AlgorithmMismatch(header_alg, key_alg)
       THEN Verdict("ID token header algorithm does not match JWKS key algorithm", <<>>)
       ELSE IF JwkConstruct(signing_key) # ""
       THEN Verdict("ID token verification failed", <<>>)
       ELSE LET exception == JwtDecode(token, signing_key, <<key_alg>>, ClientId, Issuer, clock)
            IN IF exception # "" THEN Verdict(DecodeError(exception), <<key_alg>>)
               ELSE CheckClaims(token, nonce, clock, <<key_alg>>)

\* _verify_id_token(id_token, oidc_config, nonce) with `keys` the JWKS that
\* _get_jwks returns
VerifyIdToken(token, keys, nonce, clock) ==
    IF token.kid = "" THEN Verdict("ID token missing 'kid' in header", <<>>)
    ELSE IF token.alg # "" /\ token.alg \notin ALLOWED_SIGNING_ALGORITHMS
    THEN Verdict("ID token uses an unsupported signing algorithm", <<>>)
    ELSE LET found == FindKey(keys, token.kid)
         IN IF found = <<>> THEN Verdict("No matching key found for kid", <<>>)
            ELSE VerifyWithKey(token, found[1], nonce, clock)

\* The verification of one ID token: the inputs are drawn at the start and
\* Verify applies _verify_id_token to them.
InitVerify ==
    /\ store = [k \in Keys |-> Absent]
    /\ req = [r \in Req |-> Idle]
    /\ resp = NoResponse
    /\ arrived = 0
    /\ oidc_enabled = TRUE
    /\ provider_configured = TRUE
    /\ issued = 0
    /\ published = {}
    /\ admitted = [k \in RateKeys |-> 0]
    /\ age = [k \in RateKeys |-> 0]
    /\ rejected = {}
    /\ consumed = {}
    /\ passed = [s \in States |-> 0]
    /\ sent = [s \in States |-> NoAttempt]
    /\ id_token \in Tokens
    /\ jwks \in KeySets
    /\ expected_nonce = 1
    /\ verdict = Pending
    /\ IdentIdle
    /\ ProviderIdle
    /\ DbIdle

Verify ==
    /\ verdict = Pending
    /\ verdict' = VerifyIdToken(id_token, jwks, expected_nonce, Clock)
    /\ UNCHANGED <<store, req, resp, arrived, config, db, ident, oidc, issued, published, history,
                   id_token, jwks, expected_nonce>>

NextVerify == Verify

SpecVerify == InitVerify /\ [][NextVerify]_vars

\* --------------------------------------------------- OIDC switched off
\* The handlers with oidc_enabled = False on a store that still holds what an
\* earlier run with OIDC enabled left in it: an attempt and rate-limit counters.
InitDisabled ==
    /\ \E s \in 1..NReq, live \in BOOLEAN, count \in [RateKeys -> 0..2] :
          /\ store = [k \in Keys |->
                        IF k = oidc_state(s) /\ live
                        THEN [val |-> 1, ttl |-> OIDC_STATE_TTL]
                        ELSE IF k = oidc_nonce(s) /\ live
                        THEN [val |-> s, ttl |-> OIDC_NONCE_TTL]
                        ELSE IF k = oidc_pkce_verifier(s) /\ live
                        THEN [val |-> GeneratePkcePair(s)[1], ttl |-> OIDC_PKCE_VERIFIER_TTL]
                        ELSE IF k \in RateKeys /\ count[k] > 0
                        THEN [val |-> count[k], ttl |-> oidc_rate_limit_window_seconds]
                        ELSE Absent]
          /\ issued = s
          /\ published = {s}
          /\ sent = [t \in States |->
                       IF t = s
                       THEN [nonce |-> s, code_verifier |-> GeneratePkcePair(s)[1],
                             url |-> GetAuthorizationUrl(Prepared, s, RedirectUri, s,
                                                        GeneratePkcePair(s)[2], 0).url]
                       ELSE NoAttempt]
          /\ admitted = [k \in RateKeys |-> Min(count[k], Limit(k[3]))]
    /\ req = [r \in Req |-> Idle]
    /\ resp = NoResponse
    /\ arrived = 0
    /\ oidc_enabled = FALSE
    /\ provider_configured \in BOOLEAN
    /\ age = [k \in RateKeys |-> 0]
    /\ rejected = {}
    /\ consumed = {}
    /\ passed = [s \in States |-> 0]
    /\ id_token = NoToken
    /\ jwks = <<>>
    /\ expected_nonce = Nil
    /\ verdict = Pending
    /\ IdentIdle
    /\ ProviderIdle
    /\ DbIdle

NextDisabled ==
    \/ \E r \in Req : ArriveAuthorize(r)
    \/ \E r \in Req : ArriveCallback(r)
    \/ Tick

SpecDisabled == InitDisabled /\ [][NextDisabled]_vars

\* ------------------------------------------ callbacks of a limited client
\* Callbacks for a stored attempt while one client has used up its callbacks
\* of the open window.
InitLimited ==
    /\ \E s \in 1..NReq :
          /\ store = [k \in Keys |->
                        IF k = oidc_state(s)
                        THEN [val |-> 1, ttl |-> OIDC_STATE_TTL]
                        ELSE IF k = oidc_nonce(s)
                        THEN [val |-> s, ttl |-> OIDC_NONCE_TTL]
                        ELSE IF k = oidc_pkce_verifier(s)
                        THEN [val |-> GeneratePkcePair(s)[1], ttl |-> OIDC_PKCE_VERIFIER_TTL]
                        ELSE IF k = oidc_rate_limit("callback", "ip1")
                        THEN [val |-> oidc_callback_rate_limit,
                              ttl |-> oidc_rate_limit_window_seconds]
                        ELSE Absent]
          /\ issued = s
          /\ published = {s}
          /\ sent = [t \in States |->
                       IF t = s
                       THEN [nonce |-> s, code_verifier |-> GeneratePkcePair(s)[1],
                             url |-> GetAuthorizationUrl(Prepared, s, RedirectUri, s,
                                                        GeneratePkcePair(s)[2], 0).url]
                       ELSE NoAttempt]
    /\ admitted = [k \in RateKeys |->
                     IF k = oidc_rate_limit("callback", "ip1") THEN oidc_callback_rate_limit ELSE 0]
    /\ req = [r \in Req |-> Idle]
    /\ resp = NoResponse
    /\ arrived = 0
    /\ oidc_enabled = TRUE
    /\ provider_configured \in BOOLEAN
    /\ age = [k \in RateKeys |-> 0]
    /\ rejected = {}
    /\ consumed = {}
    /\ passed = [s \in States |-> 0]
    /\ id_token = NoToken
    /\ jwks = <<>>
    /\ expected_nonce = Nil
    /\ verdict = Pending
    /\ IdentIdle
    /\ ProviderIdle
    /\ DbIdle

NextLimited ==
    \/ \E r \in Req : ArriveCallback(r)
    \/ \E r \in Req : RateLimitExpire(r)
    \/ \E r \in Req : RateLimitReject(r)
    \/ \E r \in Req : CallbackConsume(r)
    \/ \E r \in Req : CallbackLogin(r)
    \/ Tick

SpecLimited == InitLimited /\ [][NextLimited]_vars

\* ------------------------------------------- the consume step on any store
\* A callback about to run its consume transaction on a store that holds any
\* part of the attempt of its state, as the integration tests seed it
\* (test_oidc_callback_rejects_missing_nonce stores the state marker alone).
InitConsume ==
    /\ \E s \in 1..NReq, marker \in {Nil, 1}, n \in {Nil} \cup Nonces, v \in {Nil} \cup Verifiers :
          /\ store = [k \in Keys |->
                        IF k = oidc_state(s) /\ marker # Nil
                        THEN [val |-> marker, ttl |-> OIDC_STATE_TTL]
                        ELSE IF k = oidc_nonce(s) /\ n # Nil
                        THEN [val |-> n, ttl |-> OIDC_NONCE_TTL]
                        ELSE IF k = oidc_pkce_verifier(s) /\ v # Nil
                        THEN [val |-> v, ttl |-> OIDC_PKCE_VERIFIER_TTL]
                        ELSE Absent]
          /\ req = [r \in Req |->
                      IF r = 1
                      THEN [Idle EXCEPT !.kind = "callback", !.client = "ip1", !.state = s,
                                        !.current_count = 1, !.pc = "consume"]
                      ELSE Idle]
          /\ issued = s
          /\ published = {s}
    /\ resp = NoResponse
    /\ arrived = 1
    /\ oidc_enabled = TRUE
    /\ provider_configured \in BOOLEAN
    /\ admitted = [k \in RateKeys |-> 0]
    /\ age = [k \in RateKeys |-> 0]
    /\ rejected = {}
    /\ consumed = {}
    /\ passed = [s \in States |-> 0]
    /\ sent = [s \in States |-> NoAttempt]
    /\ id_token = NoToken
    /\ jwks = <<>>
    /\ expected_nonce = Nil
    /\ verdict = Pending
    /\ IdentIdle
    /\ ProviderIdle
    /\ DbIdle

NextConsume ==
    \/ \E r \in Req : CallbackConsume(r)
    \/ \E r \in Req : CallbackLogin(r)

SpecConsume == InitConsume /\ [][NextConsume]_vars

\* ---------------------------------------------------- _get_client_identifier
\* Strings are the literals below.  A comma-separated value (a config entry
\* or a header) is the sequence of its items as split(",") yields them; <<>>
\* is the empty string, and for a header also the absent header.
NotAnIp == ""
IpLiterals == {"10.0.0.1", "10.0.0.2", "203.0.113.9"}
Hosts == {NoClient, "testclient", "10.0.0.1", "10.0.0.2"}
HeaderNames == {"cf-connecting-ip", "x-real-ip"}
HeaderValues ==
    {<<>>, <<"203.0.113.9">>, <<" 203.0.113.9 ", "10.0.0.1">>, <<"garbage", "203.0.113.9">>,
     <<"10.0.0.1">>}
ProxyConfigs ==
    [oidc_trusted_proxy_ips : {<<>>, <<"10.0.0.1">>, <<" 10.0.0.1 ", " ", "garbage">>},
     oidc_client_ip_headers : {<<>>, <<"x-real-ip">>, <<"cf-connecting-ip", " x-real-ip ">>}]

\* str.strip()
Strip(value) ==
    CASE value = " 10.0.0.1 " -> "10.0.0.1"
      [] value = " 203.0.113.9 " -> "203.0.113.9"
      [] value = " x-real-ip " -> "x-real-ip"
      [] value = " " -> ""
      [] OTHER -> value

\* _parse_ip: the normalized address, NotAnIp for the None of an invalid one
ParseIp(ip_value) == IF Strip(ip_value) \in IpLiterals THEN Strip(ip_value) ELSE NotAnIp

\* _parse_csv_config: the stripped, non-empty items
RECURSIVE ParseCsvConfig(_)
ParseCsvConfig(value) ==
    IF value = <<>> THEN <<>>
    ELSE IF Strip(Head(value)) = "" THEN ParseCsvConfig(Tail(value))
    ELSE <<Strip(Head(value))>> \o ParseCsvConfig(Tail(value))

\* variant: forwarding headers are honoured whoever the peer is
TrustedAlways(direct_ip, trusted_proxies) == TRUE

\* the test of line 86
Trusted(direct_ip, trusted_proxies) == direct_ip \in trusted_proxies

\* request.headers.get(header_name)
HeaderGet(request_headers, header_name) ==
    IF header_name \in DOMAIN request_headers THEN request_headers[header_name] ELSE <<>>

\* variant: a header whose first item is no address ends the search
RECURSIVE FirstForwardedStopsAtInvalid(_, _, _)
FirstForwardedStopsAtInvalid(client_ip_headers, request_headers, direct_ip) ==
    IF client_ip_headers = <<>> THEN direct_ip
    ELSE LET raw_header_value == HeaderGet(request_headers, Head(client_ip_headers))
         IN IF raw_header_value = <<>>
            THEN FirstForwardedStopsAtInvalid(Tail(client_ip_headers), request_headers, direct_ip)
            ELSE IF ParseIp(Strip(raw_header_value[1])) # NotAnIp
            THEN ParseIp(Strip(raw_header_value[1]))
            ELSE direct_ip

\* the loop of lines 87-95: the first configured header whose first item is an
\* address, the direct peer address when there is none
RECURSIVE FirstForwarded(_, _, _)
FirstForwarded(client_ip_headers, request_headers, direct_ip) ==
    IF client_ip_headers = <<>> THEN direct_ip
    ELSE LET raw_header_value == HeaderGet(request_headers, Head(client_ip_headers))
             rest == FirstForwarded(Tail(client_ip_headers), request_headers, direct_ip)
         IN IF raw_header_value = <<>> THEN rest
            ELSE IF ParseIp(Strip(raw_header_value[1])) # NotAnIp
            THEN ParseIp(Strip(raw_header_value[1]))
            ELSE rest

GetClientIdentifier(host, request_headers, cfg) ==
    LET direct_ip == IF host = NoClient THEN NotAnIp ELSE ParseIp(host)
        csv == ParseCsvConfig(cfg.oidc_trusted_proxy_ips)
        trusted_proxies == {ParseIp(csv[i]) : i \in 1..Len(csv)} \ {NotAnIp}
        client_ip_headers == ParseCsvConfig(cfg.oidc_client_ip_headers)
    IN IF direct_ip = NotAnIp THEN "unknown"
       ELSE IF Trusted(direct_ip, trusted_proxies)
       THEN FirstForwarded(client_ip_headers, request_headers, direct_ip)
       ELSE direct_ip

\* Two requests from one peer that differ at most in their headers: the inputs
\* are drawn at the start and Identify applies _get_client_identifier to both.
InitIdent ==
    /\ store = [k \in Keys |-> Absent]
    /\ req = [r \in Req |-> Idle]
    /\ resp = NoResponse
    /\ arrived = 0
    /\ oidc_enabled = TRUE
    /\ provider_configured = TRUE
    /\ issued = 0
    /\ published = {}
    /\ admitted = [k \in RateKeys |-> 0]
    /\ age = [k \in RateKeys |-> 0]
    /\ rejected = {}
    /\ consumed = {}
    /\ passed = [s \in States |-> 0]
    /\ sent = [s \in States |-> NoAttempt]
    /\ id_token = NoToken
    /\ jwks = <<>>
    /\ expected_nonce = Nil
    /\ verdict = Pending
    /\ proxy_config \in ProxyConfigs
    /\ peer \in Hosts
    /\ headers \in [1..2 -> [HeaderNames -> HeaderValues]]
    /\ identifier = <<>>
    /\ ProviderIdle
    /\ DbIdle

Identify ==
    /\ identifier = <<>>
    /\ identifier' = [i \in 1..2 |-> GetClientIdentifier(peer, headers[i], proxy_config)]
    /\ UNCHANGED <<store, req, resp, arrived, config, db, verify, oidc, issued, published, history,
                   proxy_config, peer, headers>>

NextIdent == Identify

SpecIdent == InitIdent /\ [][NextIdent]_vars

\* ------------------------------------------------------------ OIDCProvider

\* str.lower()
Lower(text) ==
    CASE text = "HTTPS" -> "https"
      [] text = "ISSUER.EXAMPLE.COM" -> "issuer.example.com"
      [] text \in {"Bearer", "BEARER"} -> "bearer"
      [] OTHER -> text

\* the ValueError each validation raises, "" when it passes
ValidateHttpsUrl(url) ==
    IF Lower(url.scheme) # "https" THEN "must use HTTPS"
    ELSE IF url.netloc = "" THEN "must be an absolute URL"
    ELSE ""

ValidateSameDomain(reference_url, target_url) ==
    IF reference_url.netloc = "" \/ target_url.netloc = "" THEN "must be an absolute URL"
    ELSE IF Lower(reference_url.netloc) # Lower(target_url.netloc) THEN "must use the issuer domain"
    ELSE ""

\* discovery_url.startswith(issuer.rstrip("/") + "/") for an issuer without path
DerivedFrom(issuer, discovery_url) ==
    /\ discovery_url.scheme = issuer.scheme
    /\ discovery_url.netloc = issuer.netloc
    /\ discovery_url.path # ""

\* _validate_url_security_constraints, lines 96-103
ValidateUrlSecurityConstraints(issuer, discovery_url) ==
    IF ValidateHttpsUrl(issuer) # "" THEN ValidateHttpsUrl(issuer)
    ELSE IF ValidateHttpsUrl(discovery_url) # "" THEN ValidateHttpsUrl(discovery_url)
    ELSE IF ValidateSameDomain(issuer, discovery_url) # ""
    THEN ValidateSameDomain(issuer, discovery_url)
    ELSE IF ~DerivedFrom(issuer, discovery_url) THEN "discovery_url must be derived from issuer"
    ELSE ""

required_endpoints == <<"authorization_endpoint", "token_endpoint", "jwks_uri">>

\* variant: the endpoints need only be HTTPS
ValidateEndpointHttpsOnly(issuer, value) == ValidateHttpsUrl(value)

\* lines 113-114: one endpoint of a discovery document
ValidateEndpoint(issuer, value) ==
    IF ValidateHttpsUrl(value) # "" THEN ValidateHttpsUrl(value)
    ELSE ValidateSameDomain(issuer, value)

\* _validate_discovery_config, lines 105-114
ValidateDiscoveryConfig(issuer, doc) ==
    IF \E i \in 1..3 : doc[required_endpoints[i]] = NoUrl
    THEN "OIDC config missing required fields"
    ELSE IF ValidateEndpoint(issuer, doc.authorization_endpoint) # ""
    THEN ValidateEndpoint(issuer, doc.authorization_endpoint)
    ELSE IF ValidateEndpoint(issuer, doc.token_endpoint) # ""
    THEN ValidateEndpoint(issuer, doc.token_endpoint)
    ELSE ValidateEndpoint(issuer, doc.jwks_uri)

\* --- provider configurations and what the identity provider answers
ProviderConfigs ==
    {[issuer |-> IssuerUrl, discovery_url |-> Url("https", "issuer.example.com", WellKnown)],
     [issuer |-> IssuerUrl, discovery_url |-> Url("https", "issuer.example.com", "/custom")],
     [issuer |-> IssuerUrl, discovery_url |-> Url("http", "issuer.example.com", WellKnown)],
     [issuer |-> IssuerUrl, discovery_url |-> Url("https", "evil.example.com", WellKnown)],
     [issuer |-> IssuerUrl, discovery_url |-> Url("HTTPS", "ISSUER.EXAMPLE.COM", WellKnown)],
     [issuer |-> Url("http", "issuer.example.com", ""),
      discovery_url |-> Url("http", "issuer.example.com", WellKnown)],
     [issuer |-> Url("", "", "issuer.example.com"),
      discovery_url |-> Url("", "", "issuer.example.com/.well-known/openid-configuration")]}


\* an endpoint that is missing, not HTTPS, on a foreign host, or relative
BadEndpoints(path) ==
    {NoUrl, Url("http", "issuer.example.com", path), Url("https", "evil.example.com", path),
     Url("", "", path)}
\* discovery documents: the good one, one that spells the host in capitals,
\* and those with one bad endpoint
Docs ==
    {GoodDoc, [GoodDoc EXCEPT !.token_endpoint = Url("https", "ISSUER.EXAMPLE.COM", "/token")]}
    \cup {[GoodDoc EXCEPT !.authorization_endpoint = u] : u \in BadEndpoints("/authorize")}
    \cup {[GoodDoc EXCEPT !.token_endpoint = u] : u \in BadEndpoints("/token")}
    \cup {[GoodDoc EXCEPT !.jwks_uri = u] : u \in BadEndpoints("/jwks")}

\* An HTTP exchange: kind is "unreachable" when the client raises
\* httpx.RequestError, "status" for a status other than 200, "not_json" for a
\* 200 whose body is no JSON, "not_object" for JSON that is no object, and
\* "ok" for a 200 with the JSON object given as payload.
Failures == {"unreachable", "status", "not_json", "not_object"}
DiscoveryResponses ==
    {[kind |-> k, doc |-> GoodDoc] : k \in Failures} \cup {[kind |-> "ok", doc |-> d] : d \in Docs}

\* the keys the identity provider publishes before and after a key rotation
OldKeys == <<Key("k1", "RS256", "m1")>>
NewKeys == <<Key("k2", "RS256", "m2")>>
JwksResponses ==
    {[kind |-> k, keys |-> <<>>] : k \in Failures}
    \cup {[kind |-> "ok", keys |-> ks] : ks \in {OldKeys, NewKeys}}

\* the nonce of the attempt, as consumed by the callback
AttemptNonce == 1
\* an ID token signed with the given key for this client and attempt
SignedToken(kid, material) ==
    [kid |-> kid, alg |-> "RS256", signed_with |-> material, iss |-> Issuer, aud |-> ClientId,
     exp |-> 200, iat |-> 100, nbf |-> Nil, nonce |-> AttemptNonce]
IdTokens ==
    {SignedToken("k1", "m1"), SignedToken("k2", "m2"),
     [SignedToken("k1", "m1") EXCEPT !.nonce = 2],
     [SignedToken("k1", "m1") EXCEPT !.exp = 50],
     [SignedToken("k1", "m1") EXCEPT !.alg = "HS256"],
     [SignedToken("k1", "m1") EXCEPT !.kid = ""]}
\* token responses: an unreachable endpoint, bodies that are no JSON object,
\* objects with any of the two required fields and any token type under each
\* status, and the complete ones with each ID token
StatusCodes == {200, 201, 400}
TokenTypes == {"bearer", "Bearer", "BEARER", "mac"}
TokenResponses ==
    {TokenResponse("unreachable", 0, {}, "", NoToken)}
    \cup {TokenResponse(k, c, {}, "", NoToken) : k \in {"not_json", "not_object"}, c \in StatusCodes}
    \cup {TokenResponse("ok", c, f, t, SignedToken("k1", "m1")) :
             c \in StatusCodes, f \in SUBSET {"id_token", "token_type"}, t \in TokenTypes}
    \cup {TokenResponse("ok", 200, {"id_token", "token_type"}, "bearer", t) : t \in IdTokens}

\* --- the provider instance

\* The outcome of a method: the instance afterwards, the exception raised
\* ("" when it returns) with its message, and the URLs requested over HTTP.
Outcome(self, exception, error, requested) ==
    [provider |-> self, exception |-> exception, error |-> error, requested |-> requested]

\* the exception for an HTTP exchange that did not yield a JSON object:
\* httpx raises for an unreachable host, the rest are ValueErrors of
\* lines 334-338, 209-210, 520-522 and of _parse_json_response
ResponseError(kind, what) ==
    IF kind = "unreachable" THEN <<"RequestError", "connection failed">>
    ELSE IF kind = "status" THEN <<"ValueError", what>>
    ELSE IF kind = "not_json" THEN <<"ValueError", "Invalid JSON">>
    ELSE <<"ValueError", "expected JSON object">>

\* variant: the discovery document is fetched whether or not one is cached
GetOidcConfigAlwaysFetch(self, response) ==
    IF response.kind # "ok"
    THEN LET e == ResponseError(response.kind, "Failed to fetch OIDC configuration from trusted endpoint")
         IN Outcome(self, e[1], e[2], {self.discovery_url})
    ELSE IF ValidateDiscoveryConfig(self.issuer, response.doc) # ""
    THEN Outcome(self, "ValueError", ValidateDiscoveryConfig(self.issuer, response.doc),
                 {self.discovery_url})
    ELSE Outcome([self EXCEPT !.oidc_config = <<response.doc>>], "", "", {self.discovery_url})

\* _get_oidc_config, lines 328-343
GetOidcConfig(self, response) ==
    IF self.oidc_config # <<>> THEN Outcome(self, "", "", {})
    ELSE IF response.kind # "ok"
    THEN LET e == ResponseError(response.kind, "Failed to fetch OIDC configuration from trusted endpoint")
         IN Outcome(self, e[1], e[2], {self.discovery_url})
    ELSE IF ValidateDiscoveryConfig(self.issuer, response.doc) # ""
    THEN Outcome(self, "ValueError", ValidateDiscoveryConfig(self.issuer, response.doc),
                 {self.discovery_url})
    ELSE Outcome([self EXCEPT !.oidc_config = <<response.doc>>], "", "", {self.discovery_url})

\* variant: the cached set is never too old
FreshForever(self, now, ttl) == self.jwks # <<>> /\ self.jwks_cached_at # NeverCached

\* the test of lines 503-507
Fresh(self, now, ttl) ==
    /\ self.jwks # <<>>
    /\ self.jwks_cached_at # NeverCached
    /\ now - self.jwks_cached_at <= ttl

\* _get_jwks, lines 503-533, at time.monotonic() = now
GetJwks(self, oidc_config, response, now, ttl) ==
    IF Fresh(self, now, ttl) THEN Outcome(self, "", "", {})
    ELSE IF oidc_config.jwks_uri = NoUrl
    THEN Outcome(self, "ValueError", "OIDC config missing 'jwks_uri'", {})
    ELSE IF ValidateEndpoint(self.issuer, oidc_config.jwks_uri) # ""
    THEN Outcome(self, "ValueError", ValidateEndpoint(self.issuer, oidc_config.jwks_uri), {})
    ELSE IF response.kind # "ok"
    THEN LET e == ResponseError(response.kind, "Failed to fetch JWKS from trusted endpoint")
         IN Outcome(self, e[1], e[2], {oidc_config.jwks_uri})
    ELSE Outcome([self EXCEPT !.jwks = <<response.keys>>, !.jwks_cached_at = now],
                 "", "", {oidc_config.jwks_uri})

\* lines 377-385: the header checks that come before the key set is loaded
HeaderRejected(token) ==
    \/ token.kid = ""
    \/ token.alg # "" /\ token.alg \notin ALLOWED_SIGNING_ALGORITHMS

\* _verify_id_token on the instance: every exception of _get_jwks other than a
\* ValueError is turned into the ValueError of line 486
VerifyOnProvider(self, token, nonce, response, now, ttl) ==
    IF HeaderRejected(token)
    THEN Outcome(self, "ValueError", VerifyIdToken(token, <<>>, nonce, Clock).error, {})
    ELSE LET got == GetJwks(self, self.oidc_config[1], response, now, ttl)
             result == VerifyIdToken(token, got.provider.jwks[1], nonce, Clock)
         IN IF got.exception = "ValueError" THEN got
            ELSE IF got.exception # ""
            THEN Outcome(got.provider, "ValueError", "ID token verification failed", got.requested)
            ELSE IF result.error # ""
            THEN Outcome(got.provider, "ValueError", result.error, got.requested)
            ELSE Outcome(got.provider, "", "", got.requested)

\* --- calls on a provider instance
Handlers == {"authorize", "callback"}

Log(h, endpoint, requested) ==
    [h EXCEPT ![endpoint] = @ + Cardinality(requested), !.urls = @ \cup requested]

\* variant: the message of the exception is passed on to the client
AuthenticationFailedWithError(error) == error

\* _authentication_failed_exception as raised for `except ValueError as e`,
\* lines 476-481: the detail of the 401
AuthenticationFailed(error) == "Authentication failed. Please try again."

\* The response to a request whose handler ended with the given exception:
\* authorize turns every exception into its 500 (lines 400-405); callback
\* answers a ValueError with the generic 401 and lets anything else escape
\* to the framework, which answers 500.
HttpAnswer(kind, exception, error) ==
    IF exception = "" THEN [NoResponse EXCEPT !.kind = kind, !.status = 200]
    ELSE IF kind = "authorize"
    THEN [NoResponse EXCEPT !.kind = kind, !.status = 500,
                            !.detail = "Failed to generate authorization URL"]
    ELSE IF exception = "ValueError"
    THEN [NoResponse EXCEPT !.kind = kind, !.status = 401, !.detail = AuthenticationFailed(error)]
    ELSE [NoResponse EXCEPT !.kind = kind, !.status = 500, !.detail = "Internal Server Error"]

\* The call ends.  A handler answers its request and drops the instance it
\* created (lines 346 and 235 create one per request); an instance that is
\* called directly stays.
Finish(self, failed_at, exception, error) ==
    /\ call' = [call EXCEPT !.pc = "done", !.failed_at = failed_at,
                            !.exception = exception, !.error = error]
    /\ IF call.kind \in Handlers
       THEN /\ resp' = HttpAnswer(call.kind, exception, error)
            /\ provider' = NoProvider
       ELSE /\ provider' = self
            /\ UNCHANGED resp

Start(kind) ==
    /\ call.pc \in {"idle", "done"}
    /\ arrived < NCalls
    /\ arrived' = arrived + 1
    /\ call' = [NoCall EXCEPT !.kind = kind, !.pc = "discovery"]

\* OIDCProvider(provider_id, config), called directly
Construct ==
    /\ provider = NoProvider /\ call.pc = "idle"
    /\ LET error == ValidateUrlSecurityConstraints(provider_config.issuer,
                                                   provider_config.discovery_url)
       IN IF error # ""
          THEN /\ call' = [NoCall EXCEPT !.kind = "construct", !.pc = "done",
                              !.failed_at = "construct", !.exception = "ValueError",
                              !.error = error]
               /\ UNCHANGED provider
          ELSE /\ provider' = NewProvider(provider_config)
               /\ call' = [NoCall EXCEPT !.kind = "construct", !.pc = "done"]
    /\ UNCHANGED <<store, req, resp, arrived, config, db, verify, ident, issued, published, history,
                   provider_config, wall, monotonic, http>>

\* `await provider.prepare()`, called directly
CallPrepare ==
    /\ provider # NoProvider
    /\ Start("prepare")
    /\ UNCHANGED <<store, req, resp, config, db, verify, ident, issued, published, history,
                   provider_config, wall, provider, monotonic, http>>

\* `await provider.authenticate(credentials)`, called directly
CallAuthenticate ==
    /\ provider # NoProvider
    /\ Start("authenticate")
    /\ UNCHANGED <<store, req, resp, config, db, verify, ident, issued, published, history,
                   provider_config, wall, provider, monotonic, http>>

\* `provider.get_authorization_url(state, redirect_uri, nonce, code_challenge)`,
\* called directly
CallGetAuthorizationUrl ==
    /\ provider # NoProvider
    /\ call.pc \in {"idle", "done"}
    /\ arrived < NCalls
    /\ arrived' = arrived + 1
    /\ \E nonce \in {Nil, AttemptNonce}, code_challenge \in {NoChallenge, <<"challenge">>} :
          LET out == GetAuthorizationUrl(provider, 1, RedirectUri, nonce, code_challenge,
                                         wall.time_ns)
          IN /\ call' = [NoCall EXCEPT !.kind = "get_authorization_url", !.pc = "done",
                            !.failed_at = IF out.error = "" THEN "" ELSE "get_authorization_url",
                            !.exception = IF out.error = "" THEN "" ELSE "ValueError",
                            !.error = out.error, !.url = out.url,
                            !.args = <<nonce, code_challenge>>]
             /\ wall' = IF out.error = "" THEN [wall EXCEPT !.stamps = Append(@, out.url.t)]
                        ELSE wall
    /\ UNCHANGED <<store, req, resp, config, db, verify, ident, issued, published, history,
                   provider_config, provider, monotonic, http>>

\* A request that has passed the rate limiter (and, for a callback, the
\* consume step) reaches AuthProviderFactory.create("oidc", provider_config):
\* line 346 of oidc_authorize, line 235 of login_with_provider.
Request(kind) ==
    /\ Start(kind)
    /\ LET error == ValidateUrlSecurityConstraints(provider_config.issuer,
                                                   provider_config.discovery_url)
       IN IF error # ""
          THEN /\ call' = [NoCall EXCEPT !.kind = kind, !.pc = "done",
                              !.failed_at = "construct", !.exception = "ValueError",
                              !.error = error]
               /\ resp' = HttpAnswer(kind, "ValueError", error)
               /\ UNCHANGED provider
          ELSE /\ provider' = NewProvider(provider_config)
               /\ UNCHANGED resp
    /\ UNCHANGED <<store, req, config, db, verify, ident, issued, published, history,
                   provider_config, wall, monotonic, http>>

\* `await self._get_oidc_config()`: of prepare() for authorize, of prepare()
\* and line 193 for authenticate
LoadDiscovery ==
    /\ call.pc = "discovery"
    /\ \E response \in DiscoveryResponses :
          LET out == GetOidcConfig(provider, response)
          IN /\ http' = [Log(http, "discovery", out.requested)
                            EXCEPT !.loaded = @ \/ (out.exception = "" /\ out.requested # {})]
             /\ IF out.exception # ""
                THEN Finish(out.provider, "discovery", out.exception, out.error)
                ELSE IF call.kind \in {"prepare", "authorize"}
                THEN Finish(out.provider, "", "", "")
                ELSE /\ call' = [call EXCEPT !.pc = "token"]
                     /\ provider' = out.provider
                     /\ UNCHANGED resp
    /\ UNCHANGED <<store, req, arrived, config, db, verify, ident, issued, published, history,
                   provider_config, wall, monotonic>>

\* variant: the token type is compared as it was sent
ValidateTokenResponseCaseSensitive(tokens) ==
    IF {"id_token", "token_type"} \ tokens.fields # {}
    THEN "Token response missing required fields"
    ELSE IF tokens.token_type # "bearer" THEN "Unsupported token_type in token response"
    ELSE ""

\* _validate_token_response, lines 131-141: the message of the ValueError, ""
\* for none
ValidateTokenResponse(tokens) ==
    IF {"id_token", "token_type"} \ tokens.fields # {}
    THEN "Token response missing required fields"
    ELSE IF Lower(tokens.token_type) # "bearer" THEN "Unsupported token_type in token response"
    ELSE ""

\* the exception of lines 197-213 for a token response, <<"", "">> for none
TokenResponseError(response) ==
    IF response.kind = "unreachable" THEN ResponseError("unreachable", "")
    ELSE IF response.status_code # 200 THEN <<"ValueError", "Token exchange failed">>
    ELSE IF response.kind # "ok" THEN ResponseError(response.kind, "")
    ELSE IF ValidateTokenResponse(response) # ""
    THEN <<"ValueError", ValidateTokenResponse(response)>>
    ELSE <<"", "">>

\* `await client.post(oidc_config["token_endpoint"], ...)`, lines 196-213
ExchangeCode ==
    /\ call.pc = "token"
    /\ http' = Log(http, "token", {provider.oidc_config[1].token_endpoint})
    /\ \E response \in TokenResponses :
          LET e == TokenResponseError(response)
          IN IF e[1] # ""
             THEN /\ call' = [call EXCEPT !.pc = "done", !.failed_at = "token",
                                          !.exception = e[1], !.error = e[2],
                                          !.token_response = response]
                  /\ IF call.kind \in Handlers
                     THEN /\ resp' = HttpAnswer(call.kind, e[1], e[2])
                          /\ provider' = NoProvider
                     ELSE UNCHANGED <<provider, resp>>
             ELSE /\ call' = [call EXCEPT !.pc = "verify", !.id_token = response.id_token,
                                          !.token_response = response]
                  /\ UNCHANGED <<provider, resp>>
    /\ UNCHANGED <<store, req, arrived, config, db, verify, ident, issued, published, history,
                   provider_config, wall, monotonic>>

\* `await self._verify_id_token(...)`, lines 216-221
VerifyToken ==
    /\ call.pc = "verify"
    /\ \E response \in JwksResponses :
          LET out == VerifyOnProvider(provider, call.id_token, AttemptNonce, response,
                                      monotonic, jwks_cache_ttl_seconds)
          IN /\ http' = Log(http, "jwks", out.requested)
             /\ IF out.exception # ""
                THEN Finish(out.provider, "verify", out.exception, out.error)
                ELSE IF call.kind = "authenticate"
                THEN Finish(out.provider, "", "", "")
                ELSE /\ call' = [call EXCEPT !.pc = "reconcile"]
                     /\ provider' = out.provider
                     /\ UNCHANGED resp
    /\ UNCHANGED <<store, req, arrived, config, db, verify, ident, issued, published, history,
                   provider_config, wall, monotonic>>

\* the rest of login_with_provider, lines 238-256: the user is found or
\* created, or _find_or_create_oauth_user raises its ValueError
Reconcile ==
    /\ call.pc = "reconcile"
    /\ \/ Finish(provider, "", "", "")
       \/ Finish(provider, "reconcile", "ValueError",
                 "Failed to create OAuth user due to a concurrent request")
    /\ UNCHANGED <<store, req, arrived, config, db, verify, ident, issued, published, history,
                   provider_config, wall, monotonic, http>>

\* one second of time.monotonic() passes
Advance ==
    /\ monotonic < MaxClock
    /\ monotonic' = monotonic + 1
    /\ UNCHANGED <<store, req, resp, arrived, config, db, verify, ident, issued, published, history,
                   provider_config, wall, provider, http, call>>

OtherIdle ==
    /\ store = [k \in Keys |-> Absent]
    /\ req = [r \in Req |-> Idle]
    /\ resp = NoResponse
    /\ arrived = 0
    /\ oidc_enabled = TRUE
    /\ provider_configured = TRUE
    /\ issued = 0
    /\ published = {}
    /\ admitted = [k \in RateKeys |-> 0]
    /\ age = [k \in RateKeys |-> 0]
    /\ rejected = {}
    /\ consumed = {}
    /\ passed = [s \in States |-> 0]
    /\ sent = [s \in States |-> NoAttempt]
    /\ id_token = NoToken
    /\ jwks = <<>>
    /\ expected_nonce = Nil
    /\ verdict = Pending
    /\ IdentIdle

\* One provider instance, constructed from any configuration and then called
\* any number of times, as the unit tests of the provider do.
InitProvider ==
    /\ OtherIdle
    /\ DbIdle
    /\ provider_config \in ProviderConfigs
    /\ provider = NoProvider
    /\ monotonic = 0
    /\ http = NoHttp
    /\ call = NoCall
    /\ wall = NoStamps

NextProvider ==
    \/ Construct
    \/ CallPrepare
    \/ CallGetAuthorizationUrl
    \/ CallAuthenticate
    \/ LoadDiscovery
    \/ ExchangeCode
    \/ VerifyToken
    \/ Advance

SpecProvider == InitProvider /\ [][NextProvider]_vars

\* ---------------------------------------------------------- time.time_ns()
\* time_ns() reads the system's wall clock.  From one reading to the next the
\* clock may have moved on, may show the same value (two readings within its
\* resolution), or may show a lower one (the clock was set back).
WallAdvance ==
    /\ wall.time_ns < MaxClock
    /\ wall' = [wall EXCEPT !.time_ns = @ + 1]
    /\ UNCHANGED <<store, req, resp, arrived, config, db, verify, ident, issued, published, history,
                   provider_config, provider, monotonic, http, call>>

WallSetBack ==
    /\ wall.time_ns > 0
    /\ wall' = [wall EXCEPT !.time_ns = @ - 1]
    /\ UNCHANGED <<store, req, resp, arrived, config, db, verify, ident, issued, published, history,
                   provider_config, provider, monotonic, http, call>>

\* One prepared provider instance that is asked for authorization URLs while
\* the wall clock runs.
InitWallClock ==
    /\ OtherIdle
    /\ DbIdle
    /\ provider_config = GoodConfig
    /\ provider = Prepared
    /\ monotonic = 0
    /\ http = NoHttp
    /\ call = NoCall
    /\ wall = NoStamps

NextWallClock ==
    \/ CallGetAuthorizationUrl
    \/ WallAdvance
    \/ WallSetBack

SpecWallClock == InitWallClock /\ [][NextWallClock]_vars

\* The handlers from the point where they create their provider: requests are
\* handled one after the other by one process.
InitLogin ==
    /\ OtherIdle
    /\ DbIdle
    /\ provider_config \in ProviderConfigs
    /\ provider = NoProvider
    /\ monotonic = 0
    /\ http = NoHttp
    /\ call = NoCall
    /\ wall = NoStamps

NextLogin ==
    \/ \E kind \in Handlers : Request(kind)
    \/ LoadDiscovery
    \/ ExchangeCode
    \/ VerifyToken
    \/ Reconcile
    \/ Advance

SpecLogin == InitLogin /\ [][NextLogin]_vars

\* ----------------------------------- AuthService._find_or_create_oauth_user
\* The method on a scripted session, as the unit test
\* test_find_or_create_oauth_user_retries_after_integrity_error drives it:
\* the script fixes what the two first selects return, whether flush() raises
\* IntegrityError, and what successive calls of _find_existing_oauth_user
\* return.
ScriptedUsers == {NoUser, "user-id"}
FakeSessions ==
    [email : {Nil, 1}, by_mapping : ScriptedUsers, by_email : ScriptedUsers,
     flush : {"ok", "IntegrityError"}, find_existing : [1..MaxLookups -> ScriptedUsers]]

\* the result of the method: the user it returns or the exception it raises,
\* the number of _find_existing_oauth_user calls and the asyncio.sleep calls
\* it made
Returned(user, exception, lookups) ==
    [user |-> user, exception |-> exception, lookups |-> lookups, sleep_calls |-> <<>>]

\* lines 270-324
FindOrCreateOauthUser(script) ==
    IF script.by_mapping # NoUser THEN Returned(script.by_mapping, "", 0)
    ELSE IF script.email # Nil /\ script.by_email # NoUser THEN Returned(script.by_email, "", 0)
    ELSE IF script.flush = "ok" THEN Returned("new-user", "", 0)
    ELSE IF script.find_existing[1] = NoUser THEN Returned(NoUser, "ValueError", 1)
    ELSE Returned(script.find_existing[1], "", 1)

InitFindOrCreate ==
    /\ OtherIdle
    /\ ProviderIdle
    /\ users = {}
    /\ mappings = {}
    /\ session = [w \in 1..NCallbacks |-> NoSession]
    /\ fake_session \in FakeSessions
    /\ returned = NotCalled

FindOrCreate ==
    /\ returned = NotCalled
    /\ returned' = FindOrCreateOauthUser(fake_session)
    /\ UNCHANGED <<store, req, resp, arrived, config, verify, ident, oidc, issued, published,
                   history, users, mappings, session, fake_session>>

NextFindOrCreate == FindOrCreate

SpecFindOrCreate == InitFindOrCreate /\ [][NextFindOrCreate]_vars

\* ------------------------------------ AuthService.login_with_provider, rows
\* Callbacks that carry one verified identity of the provider "oidc" reconcile
\* it at the same time, each in a database session of its own.  A session
\* reads the committed rows and the rows it wrote itself (read committed); an
\* INSERT that collides with a row another session has not committed yet
\* waits for that session to end.
\*
\* A users row is [id, email, primary_auth_provider, provider_user_id], a
\* user_auth_providers row is [user_id, provider_id, provider_user_id].  The
\* user a session creates gets the session's number as its id; the user that
\* registered locally before has the id LocalUser.
ProviderUserId == "sub"
LocalUser == NCallbacks + 1
Emails == {Nil, 1}

UserRow(id, email, primary, sub) ==
    [id |-> id, email |-> email, primary_auth_provider |-> primary, provider_user_id |-> sub]
MappingRow(user_id, sub) ==
    [user_id |-> user_id, provider_id |-> "oidc", provider_user_id |-> sub]

\* uq_user_provider: UniqueConstraint("user_id", "provider_id")
UqUserProvider(a, b) == a.user_id = b.user_id /\ a.provider_id = b.provider_id

\* The unique constraint of the users table: two rows collide when they carry
\* the same email; rows without email never collide.
UsersUnique(a, b) == a.email # Nil /\ a.email = b.email

\* the rows that session w has written and not committed
PendingUsers(w) == session[w].pending
\* the users rows session w reads
VisibleUsers(w) == users \cup PendingUsers(w)

\* scalar_one_or_none(): <<>> for None, <<row>> for one row; more than one row
\* raises MultipleResultsFound
ScalarOneOrNone(rows) ==
    IF rows = {} THEN [exception |-> "", row |-> <<>>]
    ELSE IF Cardinality(rows) = 1 THEN [exception |-> "", row |-> <<CHOOSE u \in rows : TRUE>>]
    ELSE [exception |-> "MultipleResultsFound", row |-> <<>>]

\* variant: the lookup by mapping finds nobody
ByMappingNobody(w) == {}
\* select(User).join(UserAuthProvider).where(provider_id, provider_user_id):
\* one result row per matching mapping
ByMapping(w) ==
    {u \in VisibleUsers(w) :
        \E m \in mappings : /\ m.user_id = u.id /\ m.provider_id = "oidc"
                            /\ m.provider_user_id = ProviderUserId}
MappingMatches(w) ==
    {m \in mappings : /\ m.provider_id = "oidc" /\ m.provider_user_id = ProviderUserId
                      /\ \E u \in VisibleUsers(w) : u.id = m.user_id}
\* variant: the lookup by email finds nobody
ByEmailNobody(w) == {}
\* select(User).where(User.email == email)
ByEmail(w) == {u \in VisibleUsers(w) : u.email = session[w].email}
\* select(User).where(primary_auth_provider, provider_user_id)
ByProviderIdentity(w) ==
    {u \in VisibleUsers(w) :
        u.primary_auth_provider = "oidc" /\ u.provider_user_id = ProviderUserId}

\* _email_used_by_other_user, lines 386-390
EmailUsedByOtherUser(w, email, user_id) ==
    \E u \in VisibleUsers(w) : u.email = email /\ u.id # user_id

\* _apply_provider_profile_updates, lines 358-370, on the email: the users row
\* as the session leaves it
ApplyProviderProfileUpdates(w, user) ==
    IF /\ session[w].email # Nil /\ user.email = Nil
       /\ ~EmailUsedByOtherUser(w, session[w].email, user.id)
    THEN [user EXCEPT !.email = session[w].email]
    ELSE user

\* the rows a session has changed: those that differ from what it read
Dirty(before, after) == IF after # before THEN {after} ELSE {}

Fail(frame, exception) ==
    [frame EXCEPT !.pc = "done", !.exception = exception, !.pending = {}, !.updated = {},
                  !.mapping = {}]

DbFrame ==
    UNCHANGED <<store, req, resp, arrived, config, verify, ident, oidc, issued, published,
                history, fake_session, returned>>

InitOauthUser ==
    /\ OtherIdle
    /\ ProviderIdle
    /\ fake_session = <<>>
    /\ returned = NotCalled
    /\ mappings = {}
    /\ \E email \in Emails :
          /\ users \in {{}} \cup {{UserRow(LocalUser, e, "local", "local")} : e \in Emails \ {Nil}}
          /\ session = [w \in 1..NCallbacks |->
                           [NoSession EXCEPT !.pc = "by_mapping", !.email = email]]

\* lines 270-283
SelectByMapping(w) ==
    /\ session[w].pc = "by_mapping"
    /\ LET n == Cardinality(MappingMatches(w))
           found == ByMapping(w)
       IN  session' = [session EXCEPT ![w] =
               IF n > 1 THEN Fail(@, "MultipleResultsFound")
               ELSE IF found # {}
               THEN LET user == CHOOSE u \in found : TRUE
                    IN  [@ EXCEPT !.user = user.id,
                                  !.updated = Dirty(user, ApplyProviderProfileUpdates(w, user)),
                                  !.pc = "update_auth_provider"]
               ELSE [@ EXCEPT !.pc = "by_email"]]
    /\ UNCHANGED <<users, mappings>>
    /\ DbFrame

\* lines 286-295
SelectByEmail(w) ==
    /\ session[w].pc = "by_email"
    /\ LET out == ScalarOneOrNone(ByEmail(w))
       IN  session' = [session EXCEPT ![w] =
               IF session[w].email = Nil THEN [@ EXCEPT !.pc = "flush"]
               ELSE IF out.exception # "" THEN Fail(@, out.exception)
               ELSE IF out.row # <<>>
               THEN [@ EXCEPT !.user = out.row[1].id,
                              !.updated = Dirty(out.row[1],
                                                ApplyProviderProfileUpdates(w, out.row[1])),
                              !.pc = "update_auth_provider"]
               ELSE [@ EXCEPT !.pc = "flush"]]
    /\ UNCHANGED <<users, mappings>>
    /\ DbFrame

\* lines 298-324, up to the rollback: the INSERT waits while it collides with
\* a row that another session has not committed
FlushUser(w) ==
    /\ session[w].pc = "flush"
    /\ LET row == UserRow(w, session[w].email, "oidc", ProviderUserId)
       IN  /\ \A v \in (1..NCallbacks) \ {w} : \A u \in PendingUsers(v) : ~UsersUnique(row, u)
           /\ session' = [session EXCEPT ![w] =
                  IF \E u \in users : UsersUnique(row, u)
                  THEN [@ EXCEPT !.rolled_back = TRUE, !.pc = "find_existing"]
                  ELSE [@ EXCEPT !.pending = {row}, !.user = w,
                                 !.pc = "update_auth_provider"]]
    /\ UNCHANGED <<users, mappings>>
    /\ DbFrame

\* lines 317-322 and _find_existing_oauth_user, lines 326-356
FindExistingOauthUser(w) ==
    /\ session[w].pc = "find_existing"
    /\ LET n == Cardinality(MappingMatches(w))
           email == ScalarOneOrNone(ByEmail(w))
           fallback == ByProviderIdentity(w)
       IN  session' = [session EXCEPT ![w] =
               IF n > 1 THEN Fail(@, "MultipleResultsFound")
               ELSE IF n = 1
               THEN [@ EXCEPT !.user = (CHOOSE u \in ByMapping(w) : TRUE).id,
                              !.pc = "update_auth_provider"]
               ELSE IF session[w].email # Nil /\ email.exception # ""
               THEN Fail(@, email.exception)
               ELSE IF session[w].email # Nil /\ email.row # <<>>
               THEN [@ EXCEPT !.user = email.row[1].id, !.pc = "update_auth_provider"]
               ELSE IF fallback # {}
               THEN [@ EXCEPT !.user = (CHOOSE u \in fallback : TRUE).id,
                              !.pc = "update_auth_provider"]
               ELSE Fail(@, "ValueError")]
    /\ UNCHANGED <<users, mappings>>
    /\ DbFrame

\* _update_auth_provider, lines 404-424
UpdateAuthProvider(w) ==
    /\ session[w].pc = "update_auth_provider"
    /\ LET row == MappingRow(session[w].user, ProviderUserId)
       IN  session' = [session EXCEPT ![w] =
               [@ EXCEPT !.mapping = {row},
                         !.found = \E m \in mappings : UqUserProvider(m, row),
                         !.pc = "commit"]]
    /\ UNCHANGED <<users, mappings>>
    /\ DbFrame

\* login_with_provider, lines 245-256: commit() writes the mapping and ends
\* the transaction
Commit(w) ==
    /\ session[w].pc = "commit"
    /\ LET collides == /\ ~session[w].found
                       /\ \E m \in mappings : \E row \in session[w].mapping :
                              UqUserProvider(m, row)
       IN  IF collides
           THEN /\ session' = [session EXCEPT ![w] = Fail(@, "IntegrityError")]
                /\ UNCHANGED <<users, mappings>>
           ELSE /\ users' = {u \in users : \A v \in session[w].updated : v.id # u.id}
                            \cup session[w].updated \cup session[w].pending
                /\ mappings' =
                       {m \in mappings : \A row \in session[w].mapping : ~UqUserProvider(m, row)}
                       \cup session[w].mapping
                /\ session' = [session EXCEPT ![w] =
                       [@ EXCEPT !.pc = "done", !.result = session[w].user,
                                 !.pending = {}, !.updated = {}, !.mapping = {}]]
    /\ DbFrame

NextOauthUser ==
    \/ \E w \in 1..NCallbacks : SelectByMapping(w)
    \/ \E w \in 1..NCallbacks : SelectByEmail(w)
    \/ \E w \in 1..NCallbacks : FlushUser(w)
    \/ \E w \in 1..NCallbacks : FindExistingOauthUser(w)
    \/ \E w \in 1..NCallbacks : UpdateAuthProvider(w)
    \/ \E w \in 1..NCallbacks : Commit(w)

SpecOauthUser == InitOauthUser /\ [][NextOauthUser]_vars

\* ------------------------------ AuthService.login_with_provider, repeated
\* The logins of one identity, one after the other: a login starts when the
\* one before it has returned.  The provider may report another email, or
\* none, from one login to the next, and a user may have registered locally
\* before the first of them.
LoginEmails == {Nil, 1, 2}

InitRepeated ==
    /\ OtherIdle
    /\ ProviderIdle
    /\ fake_session = <<>>
    /\ returned = NotCalled
    /\ mappings = {}
    /\ users \in {{}} \cup {{UserRow(LocalUser, e, "local", "local")} : e \in LoginEmails \ {Nil}}
    /\ \E email \in [1..NCallbacks -> LoginEmails] :
          session = [w \in 1..NCallbacks |->
                        [NoSession EXCEPT !.pc = "by_mapping", !.email = email[w]]]

\* the logins before login w have returned
Turn(w) == \A v \in 1..(w - 1) : session[v].pc = "done"

NextRepeated ==
    \/ \E w \in 1..NCallbacks : Turn(w) /\ SelectByMapping(w)
    \/ \E w \in 1..NCallbacks : Turn(w) /\ SelectByEmail(w)
    \/ \E w \in 1..NCallbacks : Turn(w) /\ FlushUser(w)
    \/ \E w \in 1..NCallbacks : Turn(w) /\ UpdateAuthProvider(w)
    \/ \E w \in 1..NCallbacks : Turn(w) /\ Commit(w)

SpecRepeated == InitRepeated /\ [][NextRepeated]_vars

\* ==================================================================== claims
\* a request slot whose handler ran its consume transaction in the step
Consumes(r) == req[r].pc = "consume" /\ req'[r].pc # "consume"

\* a request slot whose request arrived and was counted in the step
Counted(r) == req[r].pc = "idle" /\ req'[r].pc # "idle"

\* the rate-limit key of the request in slot r
KeyOf(frame) == oidc_rate_limit(frame.kind, frame.client)

\* positions of a handler that the rate limiter has let through
PastLimiter == {"prepare", "setex_state", "setex_nonce", "setex_pkce", "consume", "login"}

\* C1: for every state value at most one callback passes the consume step, and
\* a callback that runs the consume step for a state another callback has
\* passed with is answered 400 "Invalid or expired state".
C1_SingleUseState ==
    /\ [](\A s \in States : passed[s] <= 1)
    /\ [][\A r \in Req :
            (Consumes(r) /\ passed[req[r].state] >= 1)
            => /\ req'[r].pc = "idle"
               /\ resp'.status = 400
               /\ resp'.detail = "Invalid or expired state"
               /\ resp'.state = req[r].state]_vars

\* a callback passed the consume step and is still being handled while a second
\* callback with the same state has been answered 400 "Invalid or expired state"
C1_Witness ==
    \E r \in Req :
        /\ req[r].pc = "login"
        /\ passed[req[r].state] = 1
        /\ resp.kind = "callback" /\ resp.state = req[r].state
        /\ resp.status = 400 /\ resp.detail = "Invalid or expired state"

\* C2: the consume step is indivisible: a step of a request that removes any
\* of the three keys of an attempt leaves none of the three in the store, so no
\* state with only some of them removed by a consume is ever visible.
C2_AtomicConsume ==
    [][\A s \in States :
         (/\ \E r \in Req : req'[r].pc # req[r].pc
          /\ \E k \in AttemptKeys(s) : Exists(store, k) /\ ~Exists(store', k))
         => \A k \in AttemptKeys(s) : ~Exists(store', k)]_vars

\* a consume has removed the three keys of an attempt while a second callback
\* with the same state is about to run its own consume
C2_Witness ==
    \E r \in Req :
        /\ req[r].pc = "consume"
        /\ passed[req[r].state] = 1
        /\ \A k \in AttemptKeys(req[r].state) : ~Exists(store, k)

\* C3: once a consume has run for a state, its three keys are absent from the
\* store whatever happens to the callback afterwards, and a later consume for
\* the same state is answered 400 without reaching the token exchange.
C3_ConsumedStaysConsumed ==
    /\ [](\A s \in consumed : \A k \in AttemptKeys(s) : ~Exists(store, k))
    /\ [][\A r \in Req :
            (Consumes(r) /\ req[r].state \in consumed)
            => /\ req'[r].pc # "login"
               /\ resp'.status = 400
               /\ resp'.state = req[r].state]_vars

\* a callback that passed the consume step has been answered 401 and the three
\* keys of its state are gone
C3_Witness ==
    /\ resp.kind = "callback" /\ resp.status = 401
    /\ resp.state \in consumed /\ passed[resp.state] = 1
    /\ \A k \in AttemptKeys(resp.state) : ~Exists(store, k)

\* the key of the verified token's kid in the key set, as found by the verifier
MatchedKey == FindKey(jwks, id_token.kid)

\* the verified token is signed by the key of its kid with that key's declared,
\* asymmetric algorithm, and its issuer, audience and time claims are valid
OtherwiseValid ==
    /\ id_token.kid # "" /\ MatchedKey # <<>>
    /\ id_token.alg \in {"RS256", "ES256"}
    /\ MatchedKey[1].alg = id_token.alg
    /\ id_token.signed_with = MatchedKey[1].material
    /\ id_token.iss = Issuer /\ id_token.aud = ClientId
    /\ id_token.exp # Nil /\ id_token.exp >= Clock
    /\ id_token.iat # Nil /\ id_token.iat <= Clock
    /\ (id_token.nbf = Nil \/ id_token.nbf <= Clock)

\* C4: verification succeeds only if the token's nonce claim equals the nonce
\* passed in, and a token that is valid in every other respect but whose nonce
\* differs or is missing fails with the nonce-mismatch error.
C4_NonceBinding ==
    verdict # Pending =>
        /\ verdict.error = "" => id_token.nonce = expected_nonce
        /\ (OtherwiseValid /\ id_token.nonce # expected_nonce)
              => verdict.error = "Nonce mismatch - possible replay attack"

\* a correctly signed token with valid claims and another attempt's nonce has
\* been rejected for its nonce
C4_Witness ==
    /\ OtherwiseValid
    /\ id_token.nonce \notin {Nil, expected_nonce}
    /\ verdict.error = "Nonce mismatch - possible replay attack"

\* C5: a token whose header declares an algorithm outside the allow-list (none,
\* HMAC or any other) is rejected whatever the key set holds, without a
\* signature check; a signature check is only ever run with one algorithm, and
\* that one is on the allow-list.
C5_AlgorithmAllowList ==
    verdict # Pending =>
        /\ id_token.alg \notin {"", "RS256", "RS384", "RS512", "ES256", "ES384", "ES512"}
              => verdict.error # "" /\ verdict.algorithms = <<>>
        /\ Len(verdict.algorithms) <= 1
        /\ \A i \in 1..Len(verdict.algorithms) :
              verdict.algorithms[i] \in {"RS256", "RS384", "RS512", "ES256", "ES384", "ES512"}

\* an HS256 token whose signature verifies with the published key as the
\* secret, against a key that declares HS256, has been rejected
C5_Witness ==
    /\ id_token.alg = "HS256"
    /\ MatchedKey # <<>> /\ MatchedKey[1].alg = "HS256"
    /\ id_token.signed_with = MatchedKey[1].material
    /\ verdict.error = "ID token uses an unsupported signing algorithm"

\* C6: when the header declares an algorithm and the key matched by kid
\* declares a different one, verification fails and no signature check is run.
C6_AlgorithmSubstitution ==
    verdict # Pending =>
        ((/\ id_token.kid # "" /\ MatchedKey # <<>>
          /\ id_token.alg # "" /\ MatchedKey[1].alg # ""
          /\ MatchedKey[1].alg # id_token.alg)
         => verdict.error # "" /\ verdict.algorithms = <<>>)

\* an RS256 token matched to a key that declares ES256 has been rejected for
\* the mismatch
C6_Witness ==
    /\ id_token.alg = "RS256"
    /\ MatchedKey # <<>> /\ MatchedKey[1].alg = "ES256"
    /\ verdict.error = "ID token header algorithm does not match JWKS key algorithm"

\* C7: in every window of every (action, client) counter the k-th counted
\* request is admitted if and only if k <= limit: of the requests counted so
\* far exactly min(count, limit) are admitted, never more than limit.
C7_LimitPerWindow ==
    /\ \A r \in Req :
          /\ req[r].pc \in PastLimiter => req[r].current_count <= Limit(req[r].kind)
          /\ req[r].pc = "rl_ttl" => req[r].current_count > Limit(req[r].kind)
    /\ \A k \in RateKeys :
          /\ admitted[k] <= Limit(k[3])
          /\ Exists(store, k) =>
                admitted[k] + Cardinality({r \in Req : /\ req[r].pc = "rl_expire"
                                                       /\ KeyOf(req[r]) = k
                                                       /\ 1 <= Limit(k[3])})
                    = Min(Get(store, k), Limit(k[3]))

\* a counter whose window admitted `limit` requests and rejected a further one
C7_Witness ==
    \E k \in RateKeys :
        /\ Exists(store, k)
        /\ admitted[k] = Limit(k[3])
        /\ Get(store, k) > Limit(k[3])
        /\ resp.status = 429 /\ resp.kind = k[3]

\* C8: every rate-limit counter in the store carries an expiry of at most the
\* window length, and no later increment extends or resets it.
C8_CounterAlwaysExpires ==
    /\ [](\A k \in RateKeys :
            Exists(store, k) => store[k].ttl \in 1..oidc_rate_limit_window_seconds)
    /\ [][\A k \in RateKeys :
            (Exists(store, k) /\ store[k].ttl # NoExpiry /\ Exists(store', k))
            => store'[k].ttl <= store[k].ttl]_vars

C10_RetryAfter ==
    resp.status = 429 =>
        /\ resp.retry_after >= 1
        /\ resp.retry_after = IF resp.ttl >= 1 THEN resp.ttl ELSE 1

\* a 429 response computed from a TTL reply of 0
C10_Witness == resp.status = 429 /\ resp.ttl = 0 /\ resp.retry_after = 1

\* the peer of the two requests is an address outside the trusted-proxy list
UntrustedPeer ==
    LET csv == ParseCsvConfig(proxy_config.oidc_trusted_proxy_ips)
    IN /\ peer \in IpLiterals
       /\ \A i \in 1..Len(csv) : Strip(csv[i]) # peer

\* C11: when the direct peer address is not in the trusted-proxy list, the
\* client identifier is the peer address whatever headers the request carries,
\* so two requests from that peer that differ only in headers get one counter.
C11_UntrustedPeerIgnoresHeaders ==
    (identifier # <<>> /\ UntrustedPeer) =>
        /\ identifier[1] = peer /\ identifier[2] = peer
        /\ \A a \in Actions :
              oidc_rate_limit(a, identifier[1]) = oidc_rate_limit(a, identifier[2])

\* an untrusted peer sent one request with a forwarded address in a configured
\* header and one without, and both got the peer address as identifier
C11_Witness ==
    /\ UntrustedPeer
    /\ proxy_config.oidc_trusted_proxy_ips # <<>>
    /\ proxy_config.oidc_client_ip_headers = <<"x-real-ip">>
    /\ headers[1]["x-real-ip"] = <<"203.0.113.9">>
    /\ headers[2]["x-real-ip"] = <<>>
    /\ identifier = <<peer, peer>>

\* a request slot whose authorize handler answered 200 in the step
Answers200(r) == req[r].pc = "setex_pkce" /\ req'[r].pc = "idle"

C14_ExchangeOrVerifyFailure401 ==
    (call.kind = "callback" /\ call.pc = "done" /\ call.failed_at \in {"token", "verify"})
        => resp.status = 401

IssuerHttps(url) ==
    /\ Lower(url.scheme) = "https"
    /\ url.netloc # ""
    /\ Lower(url.netloc) = Lower(provider_config.issuer.netloc)

\* C16: every HTTP request of the provider goes to an HTTPS URL on the
\* issuer's host: an instance only exists for an HTTPS issuer with a discovery
\* URL on its host, and a discovery document is only cached, and its endpoints
\* only used, when its three endpoints are present, HTTPS and on that host.
C16_HttpsIssuerHostOnly ==
    /\ \A url \in http.urls : IssuerHttps(url)
    /\ provider # NoProvider =>
          /\ IssuerHttps(provider.issuer) /\ IssuerHttps(provider.discovery_url)
          /\ provider.issuer = provider_config.issuer
    /\ (provider # NoProvider /\ provider.oidc_config # <<>>) =>
          \A i \in 1..3 : IssuerHttps(provider.oidc_config[1][required_endpoints[i]])
    /\ (http.token > 0 \/ http.jwks > 0) => http.loaded

\* a discovery document whose token endpoint is on a foreign host has been
\* rejected: nothing is cached and only the discovery URL has been requested
C16_Witness ==
    /\ provider # NoProvider /\ provider.oidc_config = <<>>
    /\ call.kind = "authenticate" /\ call.pc = "done"
    /\ call.failed_at = "discovery" /\ call.error = "must use the issuer domain"
    /\ http.urls = {provider.discovery_url} /\ http.token = 0

\* C17: a discovery failure is answered with a 500-class response, on
\* authorize and on callback alike.
C17_DiscoveryFailure500 ==
    (call.kind \in Handlers /\ call.pc = "done" /\ call.failed_at = "discovery")
        => resp.status = 500

\* the step is a key lookup of _verify_id_token: the call leaves the
\* verification of a token whose header was acceptable
Lookup ==
    /\ call.pc = "verify" /\ call'.pc # "verify"
    /\ call.id_token.kid # ""
    /\ call.id_token.alg \in {"", "RS256", "RS384", "RS512", "ES256", "ES384", "ES512"}

\* the cached key set exists and is at most jwks_cache_ttl_seconds old
WithinTtl ==
    /\ provider.jwks # <<>>
    /\ monotonic - provider.jwks_cached_at <= jwks_cache_ttl_seconds

\* C18: when the token's kid is not in the cached, unexpired key set, the
\* provider fetches the key set again and replaces the cache before it
\* reports an unknown key.
C18_RefetchOnUnknownKid ==
    [][(Lookup /\ WithinTtl /\ FindKey(provider.jwks[1], call.id_token.kid) = <<>>)
         => /\ http'.jwks = http.jwks + 1
            /\ provider'.jwks_cached_at = monotonic]_vars

\* C19: on one instance a lookup within jwks_cache_ttl_seconds of the last
\* fetch uses the cached key set and sends nothing; the first lookup after
\* that sends exactly one request and, when it is answered, the cache is the
\* set just fetched and nothing else, so that a kid of the old set alone is
\* an unknown key.
C19_JwksTtlCache ==
    [][Lookup =>
         IF WithinTtl
         THEN /\ http'.jwks = http.jwks
              /\ provider'.jwks = provider.jwks
              /\ provider'.jwks_cached_at = provider.jwks_cached_at
              /\ FindKey(provider.jwks[1], call.id_token.kid) # <<>>
                    => call'.error # "No matching key found for kid"
         ELSE /\ http'.jwks = http.jwks + 1
              /\ \/ /\ provider'.jwks = provider.jwks
                    /\ provider'.jwks_cached_at = provider.jwks_cached_at
                    /\ call'.exception = "ValueError"
                 \/ /\ provider'.jwks \in {<<OldKeys>>, <<NewKeys>>}
                    /\ provider'.jwks_cached_at = monotonic
                    /\ FindKey(provider'.jwks[1], call.id_token.kid) = <<>>
                          => call'.error = "No matching key found for kid"]_vars

\* the instance has fetched the key set twice, the second time after the TTL
\* had run out, and a token of the key that only the first set held has been
\* rejected as signed by an unknown key
C19_Witness ==
    /\ http.jwks = 2
    /\ provider.jwks = <<NewKeys>> /\ provider.jwks_cached_at > jwks_cache_ttl_seconds
    /\ call.kind = "authenticate" /\ call.pc = "done"
    /\ call.id_token.kid = "k1" /\ call.error = "No matching key found for kid"

\* C20: once a request has loaded the discovery document, no later request of
\* the process fetches the discovery URL again.
C20_DiscoveryLoadedOnce ==
    [][http.loaded => http'.discovery = http.discovery]_vars

\* the step belongs to a direct prepare() or get_authorization_url call on an
\* instance whose discovery document is cached
CallOnPrepared ==
    /\ provider # NoProvider /\ provider.oidc_config # <<>>
    /\ call' # call
    /\ call'.kind \in {"prepare", "get_authorization_url"}

\* C21: once prepare() has succeeded on an instance, every further prepare()
\* or get_authorization_url call on it sends no discovery request, leaves the
\* cached discovery document as it is, and prepare() succeeds again.
C21_PrepareIdempotent ==
    [][CallOnPrepared =>
         /\ http'.discovery = http.discovery
         /\ provider' = provider
         /\ (call'.kind = "prepare" /\ call'.pc = "done") => call'.exception = ""]_vars

\* three calls were made on one instance, prepare() first and
\* get_authorization_url last, and the discovery URL was requested once
C21_Witness ==
    /\ arrived = 3
    /\ http.discovery = 1 /\ http.token = 0
    /\ provider.oidc_config # <<>>
    /\ call.kind = "get_authorization_url" /\ call.pc = "done"
    /\ call.url.endpoint = provider.oidc_config[1].authorization_endpoint

\* the challenge an identity provider derives from a verifier under S256:
\* the base64url text of its SHA-256 digest, without padding
S256(code_verifier) == <<Sha256(code_verifier)>>

\* C26: the code_challenge in the authorization URL of every attempt is the
\* unpadded base64url text of the SHA-256 digest of the verifier stored under
\* the attempt's state, the method is S256, and the verifier a callback takes
\* to the token exchange for that state re-derives the challenge that was sent.
C26_PkceChallengeMatchesVerifier ==
    /\ \A s \in States : sent[s] # NoAttempt =>
          /\ sent[s].url.state = s
          /\ sent[s].url.code_challenge_method = "S256"
          /\ sent[s].url.code_challenge = S256(sent[s].code_verifier)
          /\ Exists(store, oidc_pkce_verifier(s))
                => S256(Get(store, oidc_pkce_verifier(s))) = sent[s].url.code_challenge
    /\ \A r \in Req : req[r].pc = "login" =>
          /\ sent[req[r].state] # NoAttempt
          /\ S256(req[r].code_verifier) = sent[req[r].state].url.code_challenge

\* a callback is about to exchange its code with the verifier of its state,
\* while the verifier of a second attempt is still in the store
C26_Witness ==
    \E r \in Req, s \in States :
        /\ req[r].pc = "login" /\ req[r].state # s
        /\ req[r].code_verifier = sent[req[r].state].code_verifier
        /\ Exists(store, oidc_pkce_verifier(s))
        /\ sent[s].url.code_challenge # sent[req[r].state].url.code_challenge

\* C22: every key of an attempt that is in the store is eventually absent from
\* it, whether a callback consumes the attempt or nobody ever calls back: at
\* any time each key is absent now or later (Exists ~> ~Exists, written as
\* the equivalent []<>~Exists).
C22_AttemptKeysGoAway ==
    \A s \in States : \A k \in AttemptKeys(s) : []<>(~Exists(store, k))

\* an attempt was published and never called back, and its three keys have
\* left the store
C22_Witness ==
    \E s \in published :
        /\ consumed = {}
        /\ sent[s].url.state = s
        /\ \A r \in Req : req[r].pc = "idle"
        /\ \A k \in AttemptKeys(s) : ~Exists(store, k)

\* a request slot whose callback ended its login in the step
Answers(r) == req[r].pc = "login" /\ req'[r].pc = "idle"

\* C23: what a callback does after its consume step (token exchange, ID-token
\* verification, reconciliation), whether it ends in 200, 401 or 500, leaves
\* every key of the store as it was: nothing is written, deleted or counted.
C23_LoginLeavesStore ==
    [][\A r \in Req : Answers(r) =>
         /\ store' = store
         /\ resp'.kind = "callback" /\ resp'.state = req[r].state
         /\ resp'.status \in {200, 401, 500}]_vars

\* a callback that passed the consume step has been answered 200 while its
\* client's counter and the keys of another attempt are in the store
C23_Witness ==
    /\ resp.kind = "callback" /\ resp.status = 200 /\ passed[resp.state] = 1
    /\ \E c \in Clients : Exists(store, oidc_rate_limit("callback", c))
    /\ \E s \in States \ {resp.state} : \A k \in AttemptKeys(s) : Exists(store, k)

\* C24: with OIDC disabled every authorize and every callback is answered 404
\* before any store call: no handler goes on, and the store, with its counters
\* and attempt keys, is the same after the request as before.
C24_Disabled404 ==
    /\ [](~oidc_enabled => \A r \in Req : req[r].pc = "idle")
    /\ [][(~oidc_enabled /\ arrived' # arrived) =>
            /\ resp'.status = 404
            /\ resp'.detail = "OIDC authentication is not enabled"
            /\ store' = store]_vars

\* with OIDC disabled a callback for the state of a stored attempt has been
\* answered 404, and the attempt and a counter of callbacks are in the store
C24_Witness ==
    /\ ~oidc_enabled
    /\ resp.kind = "callback" /\ resp.status = 404 /\ resp.state \in published
    /\ \A k \in AttemptKeys(resp.state) : Exists(store, k)
    /\ \E c \in Clients : Exists(store, oidc_rate_limit("callback", c))

\* flush() raised IntegrityError on the scripted session and one of the
\* lookups that follow finds the user
ConflictThenFound ==
    /\ fake_session.by_mapping = NoUser
    /\ (fake_session.email = Nil \/ fake_session.by_email = NoUser)
    /\ fake_session.flush = "IntegrityError"
    /\ \E i \in 1..MaxLookups : fake_session.find_existing[i] # NoUser

\* the first lookup that finds the user
FirstFound == CHOOSE i \in 1..MaxLookups :
    /\ fake_session.find_existing[i] # NoUser
    /\ \A j \in 1..(i - 1) : fake_session.find_existing[j] = NoUser

\* C25: after an integrity conflict on the insert of the new user the method
\* repeats the lookup of the existing user, with one sleep of 0.05 s (5
\* hundredths) before every further lookup, and returns the user of the first
\* lookup that finds one instead of raising.
C25_RetriesLookup ==
    (returned # NotCalled /\ ConflictThenFound) =>
        /\ returned.exception = ""
        /\ returned.user = fake_session.find_existing[FirstFound]
        /\ returned.lookups = FirstFound
        /\ returned.sleep_calls = [j \in 1..(FirstFound - 1) |-> 5]

\* the peer of the two requests is an address of the trusted-proxy list
TrustedPeer ==
    LET csv == ParseCsvConfig(proxy_config.oidc_trusted_proxy_ips)
    IN /\ peer \in IpLiterals
       /\ \E i \in 1..Len(csv) : Strip(csv[i]) = peer

\* the configured header names in priority order
HeaderOrder == ParseCsvConfig(proxy_config.oidc_client_ip_headers)

\* header number n of the order is present in request i and its first
\* comma-separated value is an address
Yields(i, n) ==
    /\ HeaderOrder[n] \in HeaderNames
    /\ headers[i][HeaderOrder[n]] # <<>>
    /\ Strip(headers[i][HeaderOrder[n]][1]) \in IpLiterals

\* C27: for a peer on the trusted-proxy list the identifier is the first
\* comma-separated value of the first header, in the configured order, that
\* is present and whose first value is an address, and the peer address when
\* no configured header yields one.
C27_TrustedPeerUsesHeaders ==
    (identifier # <<>> /\ TrustedPeer) =>
        \A i \in 1..2 :
            IF \E n \in 1..Len(HeaderOrder) : Yields(i, n)
            THEN \E n \in 1..Len(HeaderOrder) :
                    /\ Yields(i, n)
                    /\ \A before \in 1..(n - 1) : ~Yields(i, before)
                    /\ identifier[i] = Strip(headers[i][HeaderOrder[n]][1])
            ELSE identifier[i] = peer

\* behind a trusted proxy, a request whose first configured header starts
\* with a value that is no address got the first value of the second header,
\* and a request without forwarding headers got the proxy's address
C27_Witness ==
    /\ TrustedPeer
    /\ proxy_config.oidc_client_ip_headers = <<"cf-connecting-ip", " x-real-ip ">>
    /\ headers[1]["cf-connecting-ip"] = <<"garbage", "203.0.113.9">>
    /\ headers[1]["x-real-ip"] = <<" 203.0.113.9 ", "10.0.0.1">>
    /\ headers[2]["cf-connecting-ip"] = <<>> /\ headers[2]["x-real-ip"] = <<>>
    /\ peer = "10.0.0.1"
    /\ identifier = <<"203.0.113.9", peer>>

\* a request slot whose callback passed the consume step in the step
Passes(r) == Consumes(r) /\ passed'[req[r].state] = passed[req[r].state] + 1

InLimiter(r) ==
    /\ req[r].pc \in {"idle", "rl_expire", "rl_ttl"}
    /\ req'[r].pc # req[r].pc
    /\ (req[r].kind = "callback" \/ req'[r].kind = "callback")

\* the outcome a consume for state s would have on the store st
WouldConsume(st, s) == ConsumeOutcome(Execute(st, ConsumeCommands(s), <<>>).replies)

\* C30: a callback that counts over the limit is answered 429 and never
\* reaches the consume step; no step it takes in the rate limiter touches a
\* key of any attempt, so a consume for its state has the same outcome after
\* the 429 as before it.
C30_RejectedCallbackLeavesAttempt ==
    /\ [](\A r \in Req :
            (req[r].kind = "callback" /\ req[r].current_count > oidc_callback_rate_limit)
            => req[r].pc \in {"rl_expire", "rl_ttl"})
    /\ [][\A r \in Req : InLimiter(r) =>
            /\ \A s \in States : \A k \in AttemptKeys(s) : store'[k] = store[k]
            /\ consumed' = consumed /\ passed' = passed
            /\ req[r].pc = "rl_ttl" =>
                  /\ resp'.status = 429 /\ req'[r].pc = "idle"
                  /\ WouldConsume(store', req[r].state) = WouldConsume(store, req[r].state)]_vars

\* a callback was answered 429, and a callback that arrived after it with the
\* same state has passed the consume step
C30_Witness ==
    \E r \in Req :
        /\ req[r].retried /\ req[r].pc = "login"
        /\ passed[req[r].state] = 1
        /\ oidc_rate_limit("callback", "ip1") \in rejected

\* the users that carry the identity: by a mapping or as their own provider
\* identity
IdentityUsers ==
    {u \in users :
        \/ u.primary_auth_provider = "oidc" /\ u.provider_user_id = ProviderUserId
        \/ \E m \in mappings : /\ m.user_id = u.id /\ m.provider_id = "oidc"
                               /\ m.provider_user_id = ProviderUserId}
IdentityMappings ==
    {m \in mappings : m.provider_id = "oidc" /\ m.provider_user_id = ProviderUserId}
Succeeded == {w \in 1..NCallbacks : session[w].pc = "done" /\ session[w].exception = ""}

\* C29: whatever the interleaving of the callbacks that reconcile one
\* identity for the first time, at most one user and one mapping carry the
\* identity, and the callbacks that succeed return the same user.
C29_OneUserPerIdentity ==
    /\ Cardinality(IdentityUsers) <= 1
    /\ Cardinality(IdentityMappings) <= 1
    /\ \A v, w \in Succeeded : session[v].result = session[w].result

\* an authorize request in slot r takes a step that comes before its attempt
\* is generated
BeforeAttempt(r) ==
    /\ req[r].pc \in {"idle", "rl_expire", "rl_ttl", "prepare"}
    /\ req'[r].pc # req[r].pc
    /\ (req[r].kind = "authorize" \/ req'[r].kind = "authorize")

\* the rate-limit counter of the authorize request that steps in slot r
OwnCounter(r) ==
    oidc_rate_limit("authorize", IF req[r].pc = "idle" THEN req'[r].client ELSE req[r].client)

\* C31: the steps of an authorize request up to the generation of its attempt
\* change no key but the authorize counter of its client, and an authorize
\* that is answered 429 or 500 from there has generated no attempt: no state,
\* nonce or PKCE key of its own exists.
C31_FailedAuthorizeWritesNoAttempt ==
    [][\A r \in Req : BeforeAttempt(r) =>
          /\ \A k \in Keys \ {OwnCounter(r)} : store'[k] = store[k]
          /\ req'[r].pc = "idle" =>
                /\ resp'.kind = "authorize" /\ resp'.status \in {429, 500}
                /\ issued' = issued /\ published' = published
                /\ req[r].state = Nil]_vars

\* an authorize failed at the provider after an earlier one was rejected by
\* the rate limiter: counters exist and no attempt key does
C31_Witness ==
    /\ resp.kind = "authorize" /\ resp.status = 500
    /\ resp.detail = "Failed to generate authorization URL"
    /\ issued = 0
    /\ rejected # {}
    /\ \E c \in Clients : Exists(store, oidc_rate_limit("authorize", c))
    /\ \A s \in States : \A k \in AttemptKeys(s) : ~Exists(store, k)

\* the verified token is valid in everything but its time claims: signed by
\* the key of its kid with that key's declared, asymmetric algorithm, from the
\* issuer, for the client, with the expected nonce, and it carries exp and iat
ValidButTimes ==
    /\ id_token.kid # "" /\ MatchedKey # <<>>
    /\ id_token.alg \in {"RS256", "ES256"}
    /\ MatchedKey[1].alg = id_token.alg
    /\ id_token.signed_with = MatchedKey[1].material
    /\ id_token.iss = Issuer /\ id_token.aud = ClientId
    /\ id_token.nonce = expected_nonce
    /\ id_token.exp # Nil /\ id_token.iat # Nil

\* C32: a token that is valid but for its time claims is rejected when its
\* exp is in the past; when it is not, it is accepted exactly if its iat and
\* its nbf (when present) are at most 60 seconds after now.
C32_ClockSkew ==
    (verdict # Pending /\ ValidButTimes) =>
        /\ id_token.exp < Clock => verdict.error # ""
        /\ id_token.exp >= Clock =>
              (verdict.error = "" <=>
                  /\ id_token.iat <= Clock + 60
                  /\ (id_token.nbf = Nil \/ id_token.nbf <= Clock + 60))

\* the token endpoint has answered the call with a JSON object
Exchanged == call.token_response.kind = "ok"
\* the object has id_token and a token_type of bearer in some letter case
Complete(tokens) ==
    /\ {"id_token", "token_type"} \subseteq tokens.fields
    /\ tokens.token_type \in {"bearer", "Bearer", "BEARER"}
\* the call went on to verify the ID token of the response
Proceeded ==
    /\ call.failed_at # "token"
    /\ call.id_token = call.token_response.id_token
    /\ call.pc = "verify" \/ call.failed_at \in {"verify", "reconcile"} \/ call.exception = ""

\* C33 as stated: the exchange fails exactly when the status is not 2xx or the
\* object lacks id_token or token_type or its token_type is not bearer in some
\* letter case, and goes on to the verification otherwise.
C33_TokenResponseChecked2xx ==
    Exchanged =>
        IF /\ call.token_response.status_code \in 200..299
           /\ Complete(call.token_response)
        THEN Proceeded
        ELSE call.failed_at = "token" /\ call.exception = "ValueError"

\* C33 as amended: the same with "status other than 200" for "non-2xx status".
C33_TokenResponseChecked ==
    Exchanged =>
        IF /\ call.token_response.status_code = 200
           /\ Complete(call.token_response)
        THEN Proceeded
        ELSE call.failed_at = "token" /\ call.exception = "ValueError"

\* a 200 response whose token_type is written "Bearer" went on to verification
C33_Witness ==
    /\ Exchanged /\ call.pc = "verify"
    /\ call.token_response.status_code = 200
    /\ call.token_response.token_type = "Bearer"

\* C34: for a token whose header declares no algorithm, the verifier calls
\* jwt.decode with the algorithm of the key matched by kid when that key
\* declares an allow-listed one, and fails without calling it, unable to
\* determine the algorithm, when the key declares none either.
C34_KeyAlgorithmFallback ==
    (verdict # Pending /\ id_token.kid # "" /\ MatchedKey # <<>> /\ id_token.alg = "") =>
        /\ MatchedKey[1].alg \in ALLOWED_SIGNING_ALGORITHMS =>
              verdict.algorithms = <<MatchedKey[1].alg>>
        /\ MatchedKey[1].alg = "" =>
              /\ verdict.error = "Unable to determine signing algorithm for ID token"
              /\ verdict.algorithms = <<>>

\* a token without header algorithm was handed to jwt.decode with the RS256 of
\* its key
C34_Witness ==
    /\ verdict # Pending /\ id_token.alg = "" /\ id_token.kid = "k1"
    /\ MatchedKey # <<>> /\ MatchedKey[1].alg = "RS256"
    /\ verdict.algorithms = <<"RS256">>

\* C35: get_authorization_url raises and returns no URL when the instance has
\* no discovery document loaded or when the nonce or the code_challenge it is
\* given is empty; otherwise it returns a URL with response_type=code, the
\* scopes joined by spaces, the state, the nonce, the code_challenge and
\* code_challenge_method=S256.
C35_AuthorizationUrl ==
    call.kind = "get_authorization_url" =>
        IF provider.oidc_config = <<>> \/ call.args[1] = Nil \/ call.args[2] = NoChallenge
        THEN call.exception = "ValueError" /\ call.url = NoAuthUrl
        ELSE /\ call.exception = ""
             /\ call.url.response_type = "code"
             /\ call.url.scope = <<"openid", " ", "email", " ", "profile">>
             /\ call.url.state = 1
             /\ call.url.nonce = call.args[1]
             /\ call.url.code_challenge = call.args[2]
             /\ call.url.code_challenge_method = "S256"

\* a URL was returned for a nonce and a challenge, and a call without nonce
\* on the same instance would be refused
C35_Witness ==
    /\ call.kind = "get_authorization_url" /\ call.exception = ""
    /\ call.url.nonce = AttemptNonce /\ call.url.code_challenge = <<"challenge">>
    /\ call.url.scope = <<"openid", " ", "email", " ", "profile">>
    /\ GetAuthorizationUrl(provider, 1, RedirectUri, Nil, <<"challenge">>, 0).error # ""

\* the request in slot r takes the step it is at
Steps(r) == req'[r].pc # req[r].pc

\* every key but those of ks is left as it was
Only(ks) == \A k \in Keys \ ks : store'[k] = store[k]

\* C36: an authorize request writes only the three keys of its own new
\* attempt and increments only the authorize counter of its client; a
\* callback for state s deletes only the three keys built from s and
\* increments only the callback counter of its client.  The keys of other
\* attempts, the counters of other clients and of the other action are left
\* alone, whatever state value the client sent: the keys built from it are
\* no counter and no key of another state value.
C36_StoreIsolation ==
    [][\A r \in Req : Steps(r) =>
          LET s == req[r].state
              counter == oidc_rate_limit(IF req[r].pc = "idle" THEN req'[r].kind ELSE req[r].kind,
                                         IF req[r].pc = "idle" THEN req'[r].client ELSE req[r].client)
          IN  CASE req[r].pc \in {"idle", "rl_expire", "rl_ttl"} ->
                      /\ Only({counter})
                      /\ Get(store', counter) \in {Get(store, counter), Get(store, counter) + 1}
                [] req[r].pc \in {"setex_state", "setex_nonce", "setex_pkce"} ->
                      /\ req[r].kind = "authorize"
                      /\ s \notin published /\ s \notin ForgedStates
                      /\ Only(AttemptKeys(s))
                      /\ \A k \in AttemptKeys(s) : store'[k] # store[k] => Exists(store', k)
                [] req[r].pc = "consume" ->
                      /\ req[r].kind = "callback"
                      /\ Only(AttemptKeys(s))
                      /\ \A k \in AttemptKeys(s) : ~Exists(store', k)
                      /\ AttemptKeys(s) \cap RateKeys = {}
                      /\ \A t \in States \ {s} : AttemptKeys(s) \cap AttemptKeys(t) = {}
                [] OTHER -> Only({})]_vars

\* a callback with the state forged after the callback counter of ip1 was
\* consumed while that counter and the attempt of state 1 were in the store
C36_Witness ==
    /\ resp.kind = "callback" /\ resp.status = 400 /\ resp.state = ForgedCounter
    /\ resp.detail = "Invalid or expired state"
    /\ Exists(store, oidc_rate_limit("callback", "ip1"))
    /\ \A k \in AttemptKeys(1) : Exists(store, k)

\* the logins that have returned
LoggedIn == {w \in 1..NCallbacks : session[w].pc = "done"}
\* the users rows that logins have created
CreatedUsers == {u \in users : u.primary_auth_provider = "oidc"}
\* a user registered locally with the email that login w carries
LocalWithEmail(w) ==
    {u \in users : u.id = LocalUser /\ session[w].email # Nil /\ u.email = session[w].email}

\* C37: login_with_provider is idempotent on the identity.  The first login
\* with (provider, sub) succeeds and leaves exactly one mapping for it, and,
\* when no user carries its email, the user it created; every later login
\* with the same (provider, sub) succeeds with the same user, creates no user
\* and leaves exactly one mapping.
C37_LoginIdempotent ==
    /\ \A w \in LoggedIn : session[w].exception = "" /\ ~session[w].rolled_back
    /\ LoggedIn # {} =>
          /\ Cardinality(IdentityMappings) = 1
          /\ Cardinality(mappings) = 1
          /\ \A m \in mappings : m.user_id = session[1].result
    /\ \A v, w \in LoggedIn : session[v].result = session[w].result
    /\ Cardinality(CreatedUsers) <= 1
    /\ (1 \in LoggedIn /\ LocalWithEmail(1) = {}) =>
          /\ session[1].result = 1
          /\ \E u \in CreatedUsers : u.id = 1 /\ u.provider_user_id = ProviderUserId

\* the last login returned the user that the first one created, after the
\* provider had changed the email it reports
C37_Witness ==
    /\ LoggedIn = 1..NCallbacks
    /\ session[1].email # session[NCallbacks].email
    /\ session[NCallbacks].result = 1
    /\ Cardinality(users) = 2
    /\ Cardinality(IdentityMappings) = 1

\* the users that carry the email of login w
WithEmail(w) == {u \in users : session[w].email # Nil /\ u.email = session[w].email}

\* C38: when no mapping exists for (provider, sub) and a user carries the
\* email of the identity, _find_or_create_oauth_user returns that user: the
\* lookup by email ends it, no users row is inserted, and the login leaves
\* the users table, the email of that user included, as it was, adding only
\* the mapping of the identity to that user.
C38_LinkByEmail ==
    [][\A w \in 1..NCallbacks : (IdentityMappings = {} /\ WithEmail(w) # {}) =>
          /\ session'[w].pc \notin {"flush", "find_existing"}
          /\ session'[w].pending = {} /\ session'[w].updated = {}
          /\ (session[w].pc = "by_email" /\ session'[w].pc # "by_email") =>
                /\ session'[w].pc = "update_auth_provider"
                /\ \E u \in WithEmail(w) : session'[w].user = u.id
          /\ (session[w].pc = "commit" /\ session'[w].pc = "done") =>
                /\ users' = users
                /\ \E u \in WithEmail(w) : /\ session'[w].result = u.id
                                             /\ mappings' = {MappingRow(u.id, ProviderUserId)}]_vars

\* the first login of the identity returned the user that had registered
\* locally with its email, and the users table holds that user alone
C38_Witness ==
    /\ session[1].pc = "done" /\ session[1].exception = ""
    /\ session[1].result = LocalUser
    /\ users = {UserRow(LocalUser, session[1].email, "local", "local")}
    /\ mappings = {MappingRow(LocalUser, ProviderUserId)}

\* C39: the cache-busting parameter is monotonically increasing: the _t of
\* every authorization URL returned is strictly greater than the _t of every
\* URL returned before it, so that no two URLs are the same.
C39_CacheBusterIncreasing ==
    \A i, j \in DOMAIN wall.stamps : i < j => wall.stamps[i] < wall.stamps[j]

====
